---- MODULE Spec2Model ----
(***************************************************************************)
(* Model of the staticblocks template engine (TemplateEngine.render and    *)
(* its stages, the built-in helpers, getNestedValue) and of the Builder's  *)
(* locale prefix computation.                                              *)
(*                                                                         *)
(* A JavaScript string is a sequence of one-character strings.  A value    *)
(* of a render context is a tagged record [t |-> tag, v |-> payload].      *)
(* A mapping (object) is a function from keys (character sequences) to     *)
(* values.                                                                 *)
(***************************************************************************)
EXTENDS Integers, Sequences, FiniteSets, TLC

VARIABLES
    helpers,         \* TemplateEngine.helpers: helper name |-> helper
    registrations,   \* the registerHelper calls of the engine's user, in order
    template,        \* the template of the render call in progress
    context,         \* its RenderContext
    output,          \* the local variable output of render / processConditionals
    previousOutput,  \* the local variable previousOutput of processConditionals
    loopContexts,    \* the loopContext objects processLoops built, in order
    pc,              \* the stage render is at
    builds,          \* dev server: the builder.build calls made, in order
    dist,            \* the files in the dist directory
    watching,        \* the file watcher has been started
    clients,         \* the open WebSocket connections
    inbox            \* per client, the "reload" messages sent to it

engineVars == <<helpers, registrations, template, context, output, previousOutput,
                loopContexts, pc>>
devVars == <<builds, dist, watching, clients, inbox>>
vars == <<helpers, registrations, template, context, output, previousOutput,
          loopContexts, pc, builds, dist, watching, clients, inbox>>

----------------------------------------------------------------------------
(* Characters and string primitives                                        *)

Digits == {"0","1","2","3","4","5","6","7","8","9"}

\* [a-zA-Z0-9_]
WordChars ==
    {"a","b","c","d","e","f","g","h","i","j","k","l","m","n","o","p",
     "q","r","s","t","u","v","w","x","y","z",
     "A","B","C","D","E","F","G","H","I","J","K","L","M","N","O","P",
     "Q","R","S","T","U","V","W","X","Y","Z"}
    \cup Digits \cup {"_"}

\* [a-zA-Z0-9_.]
PathChars == WordChars \cup {"."}

\* \s (the members that occur in templates)
IsWs(c) == c \in {" ", "\n", "\t", "\r"}

Sub(s, a, b) == IF a > b THEN <<>> ELSE SubSeq(s, a, b)

\* the literal lit occurs in s at position i
StartsAt(s, i, lit) ==
    /\ i >= 1
    /\ i + Len(lit) - 1 <= Len(s)
    /\ \A k \in 1..Len(lit) : s[i + k - 1] = lit[k]

\* String.prototype.startsWith / endsWith
StartsWith(s, lit) == StartsAt(s, 1, lit)
EndsWith(s, lit) == Len(lit) <= Len(s) /\ StartsAt(s, Len(s) - Len(lit) + 1, lit)

\* first position >= i where lit occurs, 0 when there is none
IndexFrom(s, i, lit) ==
    LET hits == {j \in i..Len(s) : StartsAt(s, j, lit)}
    IN IF hits = {} THEN 0 ELSE CHOOSE j \in hits : \A k \in hits : j <= k

\* first position >= i holding the character c, 0 when there is none
IndexOfChar(s, i, c) ==
    LET hits == {j \in i..Len(s) : s[j] = c}
    IN IF hits = {} THEN 0 ELSE CHOOSE j \in hits : \A k \in hits : j <= k

\* length of the longest run of characters of class cls starting at i
RECURSIVE RunLen(_, _, _)
RunLen(s, i, cls) ==
    IF i <= Len(s) /\ s[i] \in cls THEN 1 + RunLen(s, i + 1, cls) ELSE 0

RECURSIVE WsRunLen(_, _)
WsRunLen(s, i) ==
    IF i <= Len(s) /\ IsWs(s[i]) THEN 1 + WsRunLen(s, i + 1) ELSE 0

\* String.prototype.trim
RECURSIVE TrimLeft(_)
TrimLeft(s) == IF Len(s) > 0 /\ IsWs(s[1]) THEN TrimLeft(Tail(s)) ELSE s

RECURSIVE TrimRight(_)
TrimRight(s) ==
    IF Len(s) > 0 /\ IsWs(s[Len(s)]) THEN TrimRight(Sub(s, 1, Len(s) - 1)) ELSE s

Trim(s) == TrimRight(TrimLeft(s))

\* String.prototype.split on a one-character separator
RECURSIVE Split(_, _)
Split(s, sep) ==
    LET j == IndexOfChar(s, 1, sep)
    IN IF j = 0 THEN <<s>>
       ELSE <<Sub(s, 1, j - 1)>> \o Split(Sub(s, j + 1, Len(s)), sep)

\* concatenation of a sequence of strings (Array.prototype.join(''))
RECURSIVE Join(_)
Join(ss) == IF ss = <<>> THEN <<>> ELSE Head(ss) \o Join(Tail(ss))

\* decimal digits of a natural number
DigitOf(n) == CASE n = 0 -> "0" [] n = 1 -> "1" [] n = 2 -> "2" [] n = 3 -> "3"
                [] n = 4 -> "4" [] n = 5 -> "5" [] n = 6 -> "6" [] n = 7 -> "7"
                [] n = 8 -> "8" [] n = 9 -> "9"

RECURSIVE NatToStr(_)
NatToStr(n) == IF n < 10 THEN <<DigitOf(n)>> ELSE NatToStr(n \div 10) \o <<DigitOf(n % 10)>>

----------------------------------------------------------------------------
(* String literals of the source                                           *)

\* the tag delimiters and block tags of the regular expressions
Lit == [
    open |-> <<"{","{">>,
    close |-> <<"}","}">>,
    if |-> <<"{","{","#","i","f">>,
    else |-> <<"{","{","#","e","l","s","e","}","}">>,
    endif |-> <<"{","{","/","i","f","}","}">>,
    each |-> <<"{","{","#","e","a","c","h">>,
    endeach |-> <<"{","{","/","e","a","c","h","}","}">> ]

\* property names: of the context, of the configuration, of the loop
\* metadata, and of the data the templates below use
Key == [
    length |-> <<"l","e","n","g","t","h">>,
    localeData |-> <<"l","o","c","a","l","e","D","a","t","a">>,
    currentLang |-> <<"c","u","r","r","e","n","t","L","a","n","g">>,
    langPrefix |-> <<"l","a","n","g","P","r","e","f","i","x">>,
    baseUrl |-> <<"b","a","s","e","U","r","l">>,
    config |-> <<"c","o","n","f","i","g">>,
    i18n |-> <<"i","1","8","n">>,
    defaultLocale |-> <<"d","e","f","a","u","l","t","L","o","c","a","l","e">>,
    strategy |-> <<"s","t","r","a","t","e","g","y">>,
    index |-> <<"@","i","n","d","e","x">>,
    first |-> <<"@","f","i","r","s","t">>,
    last |-> <<"@","l","a","s","t">>,
    activeNav |-> <<"a","c","t","i","v","e","N","a","v">>,
    slug |-> <<"s","l","u","g">>,
    icons |-> <<"i","c","o","n","s">>,
    locale |-> <<"l","o","c","a","l","e">>,
    locales |-> <<"l","o","c","a","l","e","s">>,
    outputPath |-> <<"o","u","t","p","u","t","P","a","t","h">>,
    a |-> <<"a">>,
    b |-> <<"b">>,
    items |-> <<"i","t","e","m","s">>,
    name |-> <<"n","a","m","e">>,
    flag |-> <<"f","l","a","g">>,
    top |-> <<"t","o","p">>,
    none |-> <<"n","o","n","e">>,
    title |-> <<"t","i","t","l","e">>,
    k |-> <<"k">>,
    toString |-> <<"t","o","S","t","r","i","n","g">> ]

\* helper names: the built-in helpers, names a caller registers or a template
\* misspells, and members every object inherits
Name == [
    translate |-> <<"t","r","a","n","s","l","a","t","e">>,
    t |-> <<"t">>,
    currentLang |-> <<"c","u","r","r","e","n","t","L","a","n","g">>,
    langPrefix |-> <<"l","a","n","g","P","r","e","f","i","x">>,
    url |-> <<"u","r","l">>,
    asset |-> <<"a","s","s","e","t">>,
    active |-> <<"a","c","t","i","v","e">>,
    langActive |-> <<"l","a","n","g","A","c","t","i","v","e">>,
    icon |-> <<"i","c","o","n">>,
    year |-> <<"y","e","a","r">>,
    json |-> <<"j","s","o","n">>,
    escape |-> <<"e","s","c","a","p","e">>,
    frobnicate |-> <<"f","r","o","b","n","i","c","a","t","e">>,
    greet |-> <<"g","r","e","e","t">>,
    constructor |-> <<"c","o","n","s","t","r","u","c","t","o","r">>,
    valueOf |-> <<"v","a","l","u","e","O","f">>,
    proto |-> <<"_","_","p","r","o","t","o","_","_">> ]

\* strategy names and locale codes; the names of the built-in constructors and
\* the text String gives for a built-in function
Str == [
    index |-> <<"i","n","d","e","x">>,
    indexhtml |-> <<"i","n","d","e","x",".","h","t","m","l">>,
    prefix |-> <<"p","r","e","f","i","x">>,
    pxd |-> <<"p","r","e","f","i","x","_","e","x","c","e","p","t","_", "d","e","f","a","u","l","t">>,
    de |-> <<"d","e">>,
    en |-> <<"e","n">>,
    fr |-> <<"f","r">>,
    active |-> <<"a","c","t","i","v","e">>,
    lucide |-> <<"l","u","c","i","d","e">>,
    Object |-> <<"O","b","j","e","c","t">>,
    Array |-> <<"A","r","r","a","y">>,
    String |-> <<"S","t","r","i","n","g">>,
    Number |-> <<"N","u","m","b","e","r">>,
    Boolean |-> <<"B","o","o","l","e","a","n">>,
    Function |-> <<"F","u","n","c","t","i","o","n">>,
    function |-> <<"f","u","n","c","t","i","o","n"," ">>,
    native |-> <<"(",")"," ","{"," ","[","n","a","t","i","v","e"," ","c","o","d","e","]"," ","}">> ]

----------------------------------------------------------------------------
(* Context values                                                          *)

Undef == [t |-> "undef"]
Null == [t |-> "null"]
BoolV(b) == [t |-> "bool", v |-> b]
NumV(n) == [t |-> "num", v |-> n]
StrV(s) == [t |-> "str", v |-> s]
SeqV(q) == [t |-> "seq", v |-> q]
MapV(m) == [t |-> "map", v |-> m]
\* values no data holds but a property lookup reaches: a built-in function by
\* its name, and the prototype object of a built-in constructor
FnV(name) == [t |-> "fn", v |-> name]
ProtoV(ctor) == [t |-> "proto", v |-> ctor]

EmptyMap == <<>>

\* JavaScript truthiness (Boolean(value))
Truthy(val) ==
    CASE val.t = "undef" -> FALSE
      [] val.t = "null" -> FALSE
      [] val.t = "bool" -> val.v
      [] val.t = "num" -> val.v # 0
      [] val.t = "str" -> val.v # <<>>
      [] OTHER -> TRUE

\* a || b
OrElse(a, b) == IF Truthy(a) THEN a ELSE b

ObjectObject == <<"[","o","b","j","e","c","t"," ","O","b","j","e","c","t","]">>

\* String(value)
RECURSIVE ToStr(_)
RECURSIVE JoinComma(_)
JoinComma(q) ==
    IF q = <<>> THEN <<>>
    ELSE LET h == IF Head(q).t \in {"undef", "null"} THEN <<>> ELSE ToStr(Head(q))
         IN IF Len(q) = 1 THEN h ELSE h \o <<",">> \o JoinComma(Tail(q))

ToStr(val) ==
    CASE val.t = "undef" -> <<"u","n","d","e","f","i","n","e","d">>
      [] val.t = "null" -> <<"n","u","l","l">>
      [] val.t = "bool" -> IF val.v THEN <<"t","r","u","e">> ELSE <<"f","a","l","s","e">>
      [] val.t = "num" -> IF val.v < 0 THEN <<"-">> \o NatToStr(0 - val.v) ELSE NatToStr(val.v)
      [] val.t = "str" -> val.v
      [] val.t = "seq" -> JoinComma(val.v)
      [] val.t = "fn" -> Str.function \o val.v \o Str.native
      [] val.t = "proto" ->
            (CASE val.v = Str.Object -> ObjectObject
               [] val.v = Str.Number -> <<"0">>
               [] val.v = Str.Boolean -> <<"f","a","l","s","e">>
               [] val.v = Str.Function -> Str.function \o Str.native
               [] OTHER -> <<>>)
      [] OTHER -> ObjectObject

\* String(value) throws a TypeError: the object, or an element of the array,
\* has an own property toString, and a property of the data is not callable
RECURSIVE StringThrows(_)
StringThrows(val) ==
    CASE val.t = "map" -> Key.toString \in DOMAIN val.v
      [] val.t = "seq" -> \E i \in 1..Len(val.v) : StringThrows(val.v[i])
      [] OTHER -> FALSE

\* what a stage evaluates to when an exception leaves it
Uncaught == <<"TypeError">>

\* an exception raised inside a replace callback unwinds the whole replace
Propagate(s) == IF \E i \in 1..Len(s) : s[i] = "TypeError" THEN Uncaught ELSE s

\* a canonical array index ("0", "1", "12"): its number, else -1
RECURSIVE DigitsToNat(_)
DigitsToNat(k) ==
    IF k = <<>> THEN 0
    ELSE 10 * DigitsToNat(Sub(k, 1, Len(k) - 1))
         + (CHOOSE n \in 0..9 : DigitOf(n) = k[Len(k)])

IndexKey(k) ==
    IF k # <<>> /\ (\A i \in 1..Len(k) : k[i] \in Digits) /\ (Len(k) = 1 \/ k[1] # "0")
    THEN DigitsToNat(k) ELSE -1

(* cur[key] where cur has no own property key: the members every value      *)
(* inherits (constructor, toString, valueOf) and __proto__.  Array.prototype *)
(* is itself an empty array.  The other inherited members (hasOwnProperty,   *)
(* the array and string methods, ...) have names no template below uses.     *)
Inherited(cur, key) ==
    LET \* the constructor the value's prototype chain starts from
        CtorOf == CASE cur.t = "map" -> Str.Object
                    [] cur.t = "seq" -> Str.Array
                    [] cur.t = "str" -> Str.String
                    [] cur.t = "num" -> Str.Number
                    [] cur.t = "bool" -> Str.Boolean
                    [] cur.t = "fn" -> Str.Function
                    [] OTHER -> cur.v
    IN CASE key = Name.constructor -> FnV(CtorOf)
         [] key \in {Key.toString, Name.valueOf} -> FnV(key)
         [] key = Name.proto ->
               (CASE cur.t = "proto" ->
                       IF cur.v = Str.Object THEN Null ELSE ProtoV(Str.Object)
                  [] cur.t = "seq" -> SeqV(<<>>)
                  [] OTHER -> ProtoV(CtorOf))
         [] OTHER -> Undef

\* current?.[key]
GetProp(cur, key) ==
    LET index == IndexKey(key)
        own ==
            CASE cur.t = "map" -> IF key \in DOMAIN cur.v THEN <<cur.v[key]>> ELSE <<>>
              [] cur.t = "seq" ->
                    IF key = Key.length THEN <<NumV(Len(cur.v))>>
                    ELSE IF index >= 0 /\ index < Len(cur.v)
                         THEN <<cur.v[index + 1]>> ELSE <<>>
              [] cur.t = "str" ->
                    IF key = Key.length THEN <<NumV(Len(cur.v))>>
                    ELSE IF index >= 0 /\ index < Len(cur.v)
                         THEN <<StrV(<<cur.v[index + 1]>>)>> ELSE <<>>
              [] cur.t = "fn" ->
                    IF key = Key.name THEN <<StrV(cur.v)>>
                    ELSE IF key = Key.length
                         THEN <<NumV(IF cur.v \in {Key.toString, Name.valueOf, <<>>}
                                     THEN 0 ELSE 1)>>
                         ELSE <<>>
              [] OTHER -> <<>>
    IN IF cur.t \in {"undef", "null"} THEN Undef
       ELSE IF own # <<>> THEN own[1] ELSE Inherited(cur, key)

RECURSIVE Reduce(_, _)
Reduce(cur, keys) ==
    IF keys = <<>> THEN cur ELSE Reduce(GetProp(cur, Head(keys)), Tail(keys))

\* getNestedValue(obj, path), obj a mapping
getNestedValue(obj, path) == Reduce(MapV(obj), Split(path, "."))

----------------------------------------------------------------------------
(* The regular expressions                                                 *)

NoMatch == [ok |-> FALSE]

(* The common head of ifRegex and eachRegex: opener \s+ ([^}]+) \}\} tried   *)
(* at position i.  \s+ is greedy and gives one character back to [^}]+     *)
(* when the whitespace run reaches the closing braces; [^}]+ always ends   *)
(* at the first "}".  ok, the capture and the position after the head.     *)
HeadAt(s, i, opener) ==
    LET a == i + Len(opener)          \* first character after the opener
        w == WsRunLen(s, a)
        j == IndexOfChar(s, a, "}")
        w1 == IF j = a + w THEN w - 1 ELSE w
    IN IF /\ StartsAt(s, i, opener)
          /\ w >= 1
          /\ j # 0
          /\ w1 >= 1
          /\ StartsAt(s, j, Lit.close)
       THEN [ok |-> TRUE, cap |-> Sub(s, a + w1, j - 1), next |-> j + 2]
       ELSE NoMatch

(* ifRegex tried at position i:                                            *)
(*   \{\{#if\s+([^}]+)\}\}([\s\S]*?)(?:\{\{#else\}\}([\s\S]*?))?\{\{\/if\}\} *)
(* The lazy true branch grows one character at a time; at each length the  *)
(* optional else group is tried first (it needs a later {{/if}}), then a   *)
(* {{/if}} right here.                                                     *)
IfMatchAt(s, i) ==
    LET hd == HeadAt(s, i, Lit.if)
    IN IF ~hd.ok THEN NoMatch
       ELSE
         LET h == hd.next
             viaElse(p) == StartsAt(s, p, Lit.else) /\ IndexFrom(s, p + Len(Lit.else), Lit.endif) # 0
             stops == {p \in h..(Len(s) + 1) : viaElse(p) \/ StartsAt(s, p, Lit.endif)}
         IN IF stops = {} THEN NoMatch
            ELSE
              LET p == CHOOSE x \in stops : \A y \in stops : x <= y
                  q == IndexFrom(s, p + Len(Lit.else), Lit.endif)
              IN IF viaElse(p)
                 THEN [ok |-> TRUE, condition |-> hd.cap,
                       trueBranch |-> Sub(s, h, p - 1),
                       falseBranch |-> Sub(s, p + Len(Lit.else), q - 1),
                       next |-> q + Len(Lit.endif)]
                 ELSE [ok |-> TRUE, condition |-> hd.cap,
                       trueBranch |-> Sub(s, h, p - 1),
                       falseBranch |-> <<>>,
                       next |-> p + Len(Lit.endif)]

\* variant: Boolean(value) for every value, sequences included
RECURSIVE evaluateCondition_NoArrayCheck(_, _)
evaluateCondition_NoArrayCheck(condition, ctx) ==
    IF StartsWith(condition, <<"!">>)
    THEN ~evaluateCondition_NoArrayCheck(Tail(condition), ctx)
    ELSE Truthy(getNestedValue(ctx, condition))

\* TemplateEngine.evaluateCondition
RECURSIVE evaluateCondition(_, _)
evaluateCondition(condition, ctx) ==
    IF StartsWith(condition, <<"!">>)
    THEN ~evaluateCondition(Tail(condition), ctx)
    ELSE LET value == getNestedValue(ctx, condition)
         IN IF value.t = "seq" THEN Len(value.v) > 0 ELSE Truthy(value)

\* variant: a block whose condition is false and that has no {{#else}} is kept
RECURSIVE ReplaceIfs_KeepFalse(_, _, _)
ReplaceIfs_KeepFalse(s, i, ctx) ==
    IF i > Len(s) THEN <<>>
    ELSE LET m == IfMatchAt(s, i)
         IN IF m.ok
            THEN (IF evaluateCondition(Trim(m.condition), ctx) THEN m.trueBranch
                  ELSE IF m.falseBranch = <<>> THEN Sub(s, i, m.next - 1)
                       ELSE m.falseBranch)
                 \o ReplaceIfs_KeepFalse(s, m.next, ctx)
            ELSE <<s[i]>> \o ReplaceIfs_KeepFalse(s, i + 1, ctx)

\* output.replace(ifRegex, callback), scanning from position i
RECURSIVE ReplaceIfs(_, _, _)
ReplaceIfs(s, i, ctx) ==
    IF i > Len(s) THEN <<>>
    ELSE LET m == IfMatchAt(s, i)
         IN IF m.ok
            THEN (IF evaluateCondition(Trim(m.condition), ctx)
                  THEN m.trueBranch ELSE m.falseBranch)
                 \o ReplaceIfs(s, m.next, ctx)
            ELSE <<s[i]>> \o ReplaceIfs(s, i + 1, ctx)

\* variant: the loop runs while the text holds an {{#if marker
LoopContinues_WhileMarker(out, previous) == IndexFrom(out, 1, Lit.if) # 0

\* the loop condition: output !== previousOutput && ifRegex.test(output)
\* (ifRegex.test with lastIndex = 0: a match anywhere in the text)
LoopContinues(out, previous) ==
    out # previous /\ \E i \in 1..Len(out) : IfMatchAt(out, i).ok

\* the while loop of processConditionals
RECURSIVE ConditionalsLoop(_, _, _)
ConditionalsLoop(out, previous, ctx) ==
    IF LoopContinues(out, previous)
    THEN ConditionalsLoop(ReplaceIfs(out, 1, ctx), out, ctx)
    ELSE out

\* TemplateEngine.processConditionals
processConditionals(tpl, ctx) == ConditionalsLoop(tpl, <<>>, ctx)

----------------------------------------------------------------------------
(* Built-in helpers.  A helper takes the context and the argument list     *)
(* and returns [ok |-> TRUE, val |-> value], or [ok |-> FALSE] when it     *)
(* throws.                                                                 *)

\* context.key of a mapping
Field(ctx, key) == IF key \in DOMAIN ctx THEN ctx[key] ELSE Undef

\* argList[n], undefined when the helper got fewer arguments
Arg(args, n) == IF n <= Len(args) THEN StrV(args[n]) ELSE Undef

Returns(val) == [ok |-> TRUE, val |-> val]
Throws == [ok |-> FALSE]

\* helper 'translate'
translateHelper(ctx, args) ==
    LET key == Arg(args, 1)
        localeData == Field(ctx, Key.localeData)
    IN IF ~Truthy(localeData) THEN Returns(key)
       ELSE Returns(OrElse(Reduce(localeData, Split(key.v, ".")), key))

\* context.config.i18n?.defaultLocale
ConfigDefaultLocale(ctx) ==
    LET cfg == Field(ctx, Key.config)
        i18n == GetProp(cfg, Key.i18n)
    IN IF i18n.t \in {"undef", "null"} THEN Undef ELSE GetProp(i18n, Key.defaultLocale)

\* helper 'currentLang'; context.config is always supplied
currentLangHelper(ctx, args) ==
    IF Field(ctx, Key.config).t \in {"undef", "null"} /\ ~Truthy(Field(ctx, Key.currentLang))
    THEN Throws
    ELSE Returns(OrElse(Field(ctx, Key.currentLang),
                        OrElse(ConfigDefaultLocale(ctx), StrV(<<"d","e">>))))

\* helper 'langPrefix'
langPrefixHelper(ctx, args) == Returns(OrElse(Field(ctx, Key.langPrefix), StrV(<<>>)))

\* path.startsWith('/') ? path : `/${path}`
LeadingSlash(path) == IF StartsWith(path, <<"/">>) THEN path ELSE <<"/">> \o path

\* variant: every trailing slash removed
RECURSIVE StripTrailingSlash_All(_)
StripTrailingSlash_All(normalizedPath) ==
    IF normalizedPath # <<"/">> /\ EndsWith(normalizedPath, <<"/">>)
    THEN StripTrailingSlash_All(Sub(normalizedPath, 1, Len(normalizedPath) - 1))
    ELSE normalizedPath

\* the trailing slash removed unless the path is the root path
StripTrailingSlash(normalizedPath) ==
    IF normalizedPath # <<"/">> /\ EndsWith(normalizedPath, <<"/">>)
    THEN Sub(normalizedPath, 1, Len(normalizedPath) - 1)
    ELSE normalizedPath

\* helper 'url'
urlHelper(ctx, args) ==
    LET baseUrl == OrElse(Field(ctx, Key.baseUrl), StrV(<<>>))
        prefix == OrElse(Field(ctx, Key.langPrefix), StrV(<<>>))
        path == args[1]
    IN IF StringThrows(baseUrl) \/ StringThrows(prefix) THEN Throws
       ELSE Returns(StrV(ToStr(baseUrl) \o ToStr(prefix)
                         \o StripTrailingSlash(LeadingSlash(path))))

\* helper 'asset'
assetHelper(ctx, args) ==
    LET baseUrl == OrElse(Field(ctx, Key.baseUrl), StrV(<<>>))
    IN IF StringThrows(baseUrl) THEN Throws
       ELSE Returns(StrV(ToStr(baseUrl) \o LeadingSlash(args[1])))

\* path.endsWith('/') ? path : path + '/'
TrailingSlash(path) == IF EndsWith(path, <<"/">>) THEN path ELSE path \o <<"/">>

\* helper 'active'
\* variant: the current path is always taken from the slug
activeHelper_SlugOnly(ctx, args) ==
    LET nav == Field(ctx, Key.slug)
        currentPath == <<"/">> \o ToStr(nav)
        isActive == TrailingSlash(currentPath) = TrailingSlash(args[1])
    IN IF StringThrows(nav) THEN Throws
       ELSE IF isActive THEN Returns(OrElse(Arg(args, 2), StrV(Str.active)))
            ELSE Returns(StrV(<<>>))

activeHelper(ctx, args) ==
    LET nav == OrElse(Field(ctx, Key.activeNav), Field(ctx, Key.slug))
        currentPath == <<"/">> \o ToStr(nav)
        isActive == TrailingSlash(currentPath) = TrailingSlash(args[1])
    IN IF StringThrows(nav) THEN Throws
       ELSE IF isActive THEN Returns(OrElse(Arg(args, 2), StrV(Str.active)))
            ELSE Returns(StrV(<<>>))

\* String.prototype.toLowerCase
ToLowerCase(str) ==
    LET upper == <<"A","B","C","D","E","F","G","H","I","J","K","L","M",
                   "N","O","P","Q","R","S","T","U","V","W","X","Y","Z">>
        lower == <<"a","b","c","d","e","f","g","h","i","j","k","l","m",
                   "n","o","p","q","r","s","t","u","v","w","x","y","z">>
        LowerOf(c) == IF \E i \in 1..26 : upper[i] = c
                      THEN lower[CHOOSE i \in 1..26 : upper[i] = c] ELSE c
    IN [i \in 1..Len(str) |-> LowerOf(str[i])]

\* helper 'langActive'
langActiveHelper(ctx, args) ==
    LET Compared(currentLang) ==
            IF currentLang.t # "str" THEN Throws
            ELSE IF ToLowerCase(currentLang.v) = ToLowerCase(args[1])
                 THEN Returns(OrElse(Arg(args, 2), StrV(Str.active)))
                 ELSE Returns(StrV(<<>>))
    IN IF ~Truthy(Field(ctx, Key.currentLang))
          /\ Field(ctx, Key.config).t \in {"undef", "null"}
       THEN Throws
       ELSE Compared(OrElse(Field(ctx, Key.currentLang),
                            OrElse(ConfigDefaultLocale(ctx), StrV(Str.de))))

\* classes.join(' ')
RECURSIVE JoinSpace(_)
JoinSpace(ss) ==
    IF ss = <<>> THEN <<>>
    ELSE IF Len(ss) = 1 THEN Head(ss) ELSE Head(ss) \o <<" ">> \o JoinSpace(Tail(ss))

\* helper 'icon'
iconHelper(ctx, args) ==
    LET cfg == Field(ctx, Key.config)
        name == args[1]
        classes == Tail(args)
    IN IF cfg.t \in {"undef", "null"} THEN Throws
       ELSE IF GetProp(cfg, Key.icons) = StrV(Str.lucide)
            THEN Returns(StrV(
                    <<"<","i"," ","d","a","t","a","-","l","u","c","i","d","e","=","\"">> \o name
                    \o <<"\"">>
                    \o (IF Len(classes) > 0
                        THEN <<" ","c","l","a","s","s","=","\"">> \o JoinSpace(classes) \o <<"\"">>
                        ELSE <<>>)
                    \o <<">","<","/","i",">">>))
            ELSE Returns(StrV(
                    <<"<","i"," ","c","l","a","s","s","=","\"","f","a"," ","f","a","-">> \o name
                    \o (IF Len(classes) > 0 THEN <<" ">> \o JoinSpace(classes) ELSE <<>>)
                    \o <<"\"",">","<","/","i",">">>))

\* new Date().getFullYear(): the calendar year of the system clock
ClockYear == 2026

\* helper 'year'
yearHelper(ctx, args) == Returns(StrV(NatToStr(ClockYear)))

\* JSON.stringify of a string: quoted, with quote and backslash escaped
RECURSIVE JsonChars(_)
JsonChars(str) ==
    IF str = <<>> THEN <<>>
    ELSE (CASE Head(str) = "\"" -> <<"\\","\"">>
            [] Head(str) = "\\" -> <<"\\","\\">>
            [] Head(str) = "\n" -> <<"\\","n">>
            [] Head(str) = "\t" -> <<"\\","t">>
            [] Head(str) = "\r" -> <<"\\","r">>
            [] OTHER -> <<Head(str)>>) \o JsonChars(Tail(str))

\* JSON.stringify(value); Undef when the result is undefined.  The members of
\* an object come in one fixed order of the keys.
RECURSIVE JsonStringify(_)
RECURSIVE JsonElements(_)
RECURSIVE JsonMembers(_, _)
JsonElements(q) ==
    IF q = <<>> THEN <<>>
    ELSE LET h == JsonStringify(Head(q))
             e == IF h.t = "undef" THEN <<"n","u","l","l">> ELSE h.v
         IN IF Len(q) = 1 THEN e ELSE e \o <<",">> \o JsonElements(Tail(q))

JsonMembers(obj, keys) ==
    IF keys = {} THEN <<>>
    ELSE LET k == CHOOSE x \in keys : TRUE
             rest == JsonMembers(obj, keys \ {k})
             v == JsonStringify(obj[k])
         IN IF v.t = "undef" THEN rest
            ELSE <<"\"">> \o JsonChars(k) \o <<"\"",":">> \o v.v
                 \o (IF rest = <<>> THEN <<>> ELSE <<",">> \o rest)

JsonStringify(val) ==
    CASE val.t = "undef" -> Undef
      [] val.t = "str" -> StrV(<<"\"">> \o JsonChars(val.v) \o <<"\"">>)
      [] val.t = "seq" -> StrV(<<"[">> \o JsonElements(val.v) \o <<"]">>)
      [] val.t = "map" -> StrV(<<"{">> \o JsonMembers(val.v, DOMAIN val.v) \o <<"}">>)
      [] val.t = "fn" -> Undef
      [] val.t = "proto" ->
            (CASE val.v = Str.Object -> StrV(<<"{","}">>)
               [] val.v = Str.String -> StrV(<<"\"","\"">>)
               [] val.v = Str.Function -> Undef
               [] OTHER -> StrV(ToStr(val)))
      [] OTHER -> StrV(ToStr(val))

\* helper 'json'
jsonHelper(ctx, args) == Returns(JsonStringify(getNestedValue(ctx, args[1])))

\* variant: the apostrophe is left as it is
EscapeChar_NoApostrophe(c) ==
    CASE c = "&" -> <<"&","a","m","p",";">>
      [] c = "<" -> <<"&","l","t",";">>
      [] c = ">" -> <<"&","g","t",";">>
      [] c = "\"" -> <<"&","q","u","o","t",";">>
      [] OTHER -> <<c>>

\* the five entities of the escape helper
EscapeChar(c) ==
    CASE c = "&" -> <<"&","a","m","p",";">>
      [] c = "<" -> <<"&","l","t",";">>
      [] c = ">" -> <<"&","g","t",";">>
      [] c = "\"" -> <<"&","q","u","o","t",";">>
      [] c = "'" -> <<"&","#","3","9",";">>
      [] OTHER -> <<c>>

\* .replace(/\{\{/g, '&#123;&#123;').replace(/\}\}/g, '&#125;&#125;')
RECURSIVE EscapeBraces(_)
EscapeBraces(str) ==
    IF str = <<>> THEN <<>>
    ELSE IF StartsWith(str, Lit.open)
         THEN <<"&","#","1","2","3",";","&","#","1","2","3",";">>
              \o EscapeBraces(Sub(str, 3, Len(str)))
         ELSE IF StartsWith(str, Lit.close)
              THEN <<"&","#","1","2","5",";","&","#","1","2","5",";">>
                   \o EscapeBraces(Sub(str, 3, Len(str)))
              ELSE <<Head(str)>> \o EscapeBraces(Tail(str))

\* helper 'escape'
escapeHelper(ctx, args) ==
    LET value == getNestedValue(ctx, args[1])
    IN IF value.t # "str" THEN Returns(StrV(<<>>))
       ELSE Returns(StrV(EscapeBraces(Join([i \in 1..Len(value.v) |-> EscapeChar(value.v[i])]))))

\* the helper table after registerDefaultHelpers: name |-> helper
DefaultHelpers ==
    (Name.translate :> "translate") @@ (Name.t :> "t") @@ (Name.currentLang :> "currentLang")
    @@ (Name.langPrefix :> "langPrefix") @@ (Name.active :> "active")
    @@ (Name.langActive :> "langActive") @@ (Name.icon :> "icon") @@ (Name.url :> "url")
    @@ (Name.asset :> "asset") @@ (Name.year :> "year") @@ (Name.json :> "json")
    @@ (Name.escape :> "escape")

\* functions a caller passes to registerHelper: one that returns "K", one
\* that throws
CustomHelpers == {"returnsK", "throws"}

(* What this.helpers[name] finds on Object.prototype when the table has no  *)
(* own entry: the Object constructor, Object.prototype.toString, the        *)
(* methods that need an object as this (valueOf stands for hasOwnProperty,  *)
(* isPrototypeOf, propertyIsEnumerable, toLocaleString), and __proto__,     *)
(* which is an object and not a function.                                   *)
ObjectPrototype ==
    (Name.constructor :> "Object") @@ (Key.toString :> "Object.prototype.toString")
    @@ (Name.valueOf :> "Object.prototype.valueOf") @@ (Name.proto :> "Object.prototype")

\* this.helpers[helperName]
Lookup(hs, helperName) ==
    IF helperName \in DOMAIN hs THEN hs[helperName]
    ELSE IF helperName \in DOMAIN ObjectPrototype THEN ObjectPrototype[helperName]
         ELSE "undefined"

\* variant: the function is stored under every name of the table
Registered_EveryName(hs, name, fn) == [n \in DOMAIN hs \cup {name} |-> fn]

\* variant: an entry the table already has is kept
Registered_KeepFirst(hs, name, fn) == hs @@ (name :> fn)

\* this.helpers[name] = fn
Registered(hs, name, fn) == (name :> fn) @@ hs

\* helper(context, ...argList) for the function fn; 't' calls whatever is
\* registered as 'translate' in the table hs.  The call passes no this.
Invoke(hs, fn, ctx, args) ==
    LET direct(f) ==
            CASE f = "translate" -> translateHelper(ctx, args)
              [] f = "currentLang" -> currentLangHelper(ctx, args)
              [] f = "langPrefix" -> langPrefixHelper(ctx, args)
              [] f = "url" -> urlHelper(ctx, args)
              [] f = "asset" -> assetHelper(ctx, args)
              [] f = "active" -> activeHelper(ctx, args)
              [] f = "langActive" -> langActiveHelper(ctx, args)
              [] f = "icon" -> iconHelper(ctx, args)
              [] f = "year" -> yearHelper(ctx, args)
              [] f = "json" -> jsonHelper(ctx, args)
              [] f = "escape" -> escapeHelper(ctx, args)
              [] f = "returnsK" -> Returns(StrV(<<"K">>))
              [] f = "throws" -> Throws
              [] f = "Object" -> Returns(MapV(ctx))
              [] f = "Object.prototype.toString" ->
                    Returns(StrV(<<"[","o","b","j","e","c","t"," ",
                                   "U","n","d","e","f","i","n","e","d","]">>))
              [] OTHER -> Throws
    IN IF fn = "t" /\ ~(Name.translate \in DOMAIN hs /\ hs[Name.translate] # "t")
       THEN Throws
       ELSE direct(IF fn = "t" THEN hs[Name.translate] ELSE fn)

----------------------------------------------------------------------------
(* processHelpers, processVariables, processLoops, render                  *)

\* variant: the colon and the arguments are optional
HelperMatchAt_ColonOptional(s, i) ==
    LET n == RunLen(s, i + 2, WordChars)
        c == i + 2 + n
        j == IndexOfChar(s, c, "}")
    IN IF /\ StartsAt(s, i, Lit.open)
          /\ n >= 1
          /\ j # 0
          /\ j = c \/ StartsAt(s, c, <<":">>)
          /\ StartsAt(s, j, Lit.close)
       THEN [ok |-> TRUE, helperName |-> Sub(s, i + 2, c - 1),
             args |-> Sub(s, c + 1, j - 1), next |-> j + 2]
       ELSE NoMatch

\* helperRegex /\{\{([a-zA-Z0-9_]+):([^}]+)\}\}/ tried at position i
HelperMatchAt(s, i) ==
    LET n == RunLen(s, i + 2, WordChars)
        c == i + 2 + n                   \* where the colon must be
        j == IndexOfChar(s, c + 1, "}")
    IN IF /\ StartsAt(s, i, Lit.open)
          /\ n >= 1
          /\ StartsAt(s, c, <<":">>)
          /\ j > c + 1
          /\ StartsAt(s, j, Lit.close)
       THEN [ok |-> TRUE, helperName |-> Sub(s, i + 2, c - 1),
             args |-> Sub(s, c + 1, j - 1), next |-> j + 2]
       ELSE NoMatch

\* args.split(',').map(arg => arg.trim())
RECURSIVE TrimAll(_)
TrimAll(ss) == IF ss = <<>> THEN <<>> ELSE <<Trim(Head(ss))>> \o TrimAll(Tail(ss))

ArgList(args) == TrimAll(Split(args, ","))

\* the replace callback of processHelpers for one matched tag
\* variant: the helper is called outside a try block
HelperResult_NoCatch(hs, match, helperName, args, ctx) ==
    LET helper == Lookup(hs, helperName)
    IN IF helper = "undefined" THEN match
       ELSE LET Converted(r) ==
                    IF ~r.ok \/ StringThrows(r.val) THEN Uncaught ELSE ToStr(r.val)
            IN Converted(Invoke(hs, helper, ctx, ArgList(args)))

\* (replace converts what the callback returns with String, outside the try)
HelperResult(hs, match, helperName, args, ctx) ==
    LET helper == Lookup(hs, helperName)
    IN IF helper = "undefined" THEN match
       ELSE LET Converted(r) ==
                    IF ~r.ok THEN match
                    ELSE IF StringThrows(r.val) THEN Uncaught ELSE ToStr(r.val)
            IN Converted(Invoke(hs, helper, ctx, ArgList(args)))

\* TemplateEngine.processHelpers, scanning from position i
RECURSIVE ReplaceHelpers(_, _, _, _)
ReplaceHelpers(hs, s, i, ctx) ==
    IF i > Len(s) THEN <<>>
    ELSE LET m == HelperMatchAt(s, i)
         IN IF m.ok
            THEN HelperResult(hs, Sub(s, i, m.next - 1), m.helperName, m.args, ctx)
                 \o ReplaceHelpers(hs, s, m.next, ctx)
            ELSE <<s[i]>> \o ReplaceHelpers(hs, s, i + 1, ctx)

processHelpers(hs, tpl, ctx) == Propagate(ReplaceHelpers(hs, tpl, 1, ctx))

\* variant: one brace on each side, /\{([a-zA-Z0-9_.]+)\}/
VarMatchAt_SingleBrace(s, i) ==
    LET n == RunLen(s, i + 1, PathChars)
    IN IF StartsAt(s, i, <<"{">>) /\ n >= 1 /\ StartsAt(s, i + 1 + n, <<"}">>)
       THEN [ok |-> TRUE, variable |-> Sub(s, i + 1, i + n), next |-> i + 2 + n]
       ELSE NoMatch

\* varRegex /\{\{([a-zA-Z0-9_.]+)\}\}/ tried at position i
VarMatchAt(s, i) ==
    LET n == RunLen(s, i + 2, PathChars)
    IN IF StartsAt(s, i, Lit.open) /\ n >= 1 /\ StartsAt(s, i + 2 + n, Lit.close)
       THEN [ok |-> TRUE, variable |-> Sub(s, i + 2, i + 1 + n), next |-> i + 4 + n]
       ELSE NoMatch

\* value !== undefined && value !== null ? String(value) : ''
VarResult(variable, ctx) ==
    LET value == getNestedValue(ctx, Trim(variable))
    IN IF value.t \in {"undef", "null"} THEN <<>>
       ELSE IF StringThrows(value) THEN Uncaught ELSE ToStr(value)

\* TemplateEngine.processVariables, scanning from position i
RECURSIVE ReplaceVars(_, _, _)
ReplaceVars(s, i, ctx) ==
    IF i > Len(s) THEN <<>>
    ELSE LET m == VarMatchAt(s, i)
         IN IF m.ok
            THEN VarResult(m.variable, ctx) \o ReplaceVars(s, m.next, ctx)
            ELSE <<s[i]>> \o ReplaceVars(s, i + 1, ctx)

processVariables(tpl, ctx) == Propagate(ReplaceVars(tpl, 1, ctx))

\* variant: the body runs to the last {{/each}} of the text
EachMatchAt_Greedy(s, i) ==
    LET hd == HeadAt(s, i, Lit.each)
        ends == {q \in hd.next..Len(s) : StartsAt(s, q, Lit.endeach)}
    IN IF ~hd.ok \/ ends = {} THEN NoMatch
       ELSE LET q == CHOOSE x \in ends : \A y \in ends : y <= x
            IN [ok |-> TRUE, variable |-> hd.cap,
                loopContent |-> Sub(s, hd.next, q - 1),
                next |-> q + Len(Lit.endeach)]

\* variant: without a closing tag the body runs to the end of the text
EachMatchAt_OpenEnded(s, i) ==
    LET hd == HeadAt(s, i, Lit.each)
    IN IF ~hd.ok THEN NoMatch
       ELSE LET q == IndexFrom(s, hd.next, Lit.endeach)
            IN IF q = 0 THEN [ok |-> TRUE, variable |-> hd.cap,
                              loopContent |-> Sub(s, hd.next, Len(s)),
                              next |-> Len(s) + 1]
               ELSE [ok |-> TRUE, variable |-> hd.cap,
                     loopContent |-> Sub(s, hd.next, q - 1),
                     next |-> q + Len(Lit.endeach)]

\* eachRegex /\{\{#each\s+([^}]+)\}\}([\s\S]*?)\{\{\/each\}\}/ tried at position i
EachMatchAt(s, i) ==
    LET hd == HeadAt(s, i, Lit.each)
    IN IF ~hd.ok THEN NoMatch
       ELSE LET q == IndexFrom(s, hd.next, Lit.endeach)
            IN IF q = 0 THEN NoMatch
               ELSE [ok |-> TRUE, variable |-> hd.cap,
                     loopContent |-> Sub(s, hd.next, q - 1),
                     next |-> q + Len(Lit.endeach)]

\* the own enumerable keys that ...item spreads into the loop context
SpreadOf(item) ==
    CASE item.t = "map" -> item.v
      [] item.t = "seq" -> [k \in {NatToStr(n - 1) : n \in 1..Len(item.v)} |->
                               item.v[IndexKey(k) + 1]]
      [] item.t = "str" -> [k \in {NatToStr(n - 1) : n \in 1..Len(item.v)} |->
                               StrV(<<item.v[IndexKey(k) + 1]>>)]
      [] OTHER -> EmptyMap

\* variant: the outer context spread after the element
LoopContext_OuterLast(ctx, item, index, length) ==
    (Key.index :> NumV(index)) @@ (Key.first :> BoolV(index = 0))
    @@ (Key.last :> BoolV(index = length - 1)) @@ ctx @@ SpreadOf(item)

\* { ...context, ...item, '@index': index, '@first': ..., '@last': ... }
LoopContext(ctx, item, index, length) ==
    (Key.index :> NumV(index)) @@ (Key.first :> BoolV(index = 0))
    @@ (Key.last :> BoolV(index = length - 1)) @@ SpreadOf(item) @@ ctx

RECURSIVE render(_, _, _)
RECURSIVE RenderItems(_, _, _, _, _)
RECURSIVE ReplaceEachs(_, _, _, _)

\* variant: the rendered bodies joined with join()'s default separator
RECURSIVE RenderItems_Comma(_, _, _, _, _)
RenderItems_Comma(hs, items, index, loopContent, ctx) ==
    IF index >= Len(items) THEN <<>>
    ELSE render(hs, loopContent, LoopContext(ctx, items[index + 1], index, Len(items)))
         \o (IF index + 1 < Len(items) THEN <<",">> ELSE <<>>)
         \o RenderItems_Comma(hs, items, index + 1, loopContent, ctx)

\* items.map((item, index) => this.render(loopContent, loopContext)).join('')
RenderItems(hs, items, index, loopContent, ctx) ==
    IF index >= Len(items) THEN <<>>
    ELSE render(hs, loopContent, LoopContext(ctx, items[index + 1], index, Len(items)))
         \o RenderItems(hs, items, index + 1, loopContent, ctx)

\* TemplateEngine.processLoops, scanning from position i
ReplaceEachs(hs, s, i, ctx) ==
    IF i > Len(s) THEN <<>>
    ELSE LET m == EachMatchAt(s, i)
         IN IF m.ok
            THEN LET items == getNestedValue(ctx, Trim(m.variable))
                 IN (IF items.t # "seq" THEN <<>>
                     ELSE RenderItems(hs, items.v, 0, m.loopContent, ctx))
                    \o ReplaceEachs(hs, s, m.next, ctx)
            ELSE <<s[i]>> \o ReplaceEachs(hs, s, i + 1, ctx)

processLoops(hs, tpl, ctx) == Propagate(ReplaceEachs(hs, tpl, 1, ctx))

\* TemplateEngine.render
render(hs, tpl, ctx) ==
    processVariables(
        processHelpers(hs,
            processLoops(hs, processConditionals(tpl, ctx), ctx), ctx), ctx)

\* the loopContext objects built by processLoops for its own matches, in order
RECURSIVE LoopContextsFrom(_, _, _)
LoopContextsFrom(s, i, ctx) ==
    IF i > Len(s) THEN <<>>
    ELSE LET m == EachMatchAt(s, i)
         IN IF m.ok
            THEN LET items == getNestedValue(ctx, Trim(m.variable))
                 IN (IF items.t # "seq" THEN <<>>
                     ELSE [n \in 1..Len(items.v) |->
                              LoopContext(ctx, items.v[n], n - 1, Len(items.v))])
                    \o LoopContextsFrom(s, m.next, ctx)
            ELSE LoopContextsFrom(s, i + 1, ctx)

----------------------------------------------------------------------------
(* Builder: locale prefix and render context                               *)

\* variant: the default locale gets no prefix under any strategy
getLangPrefix_NoStrategy(cfg, locale, defaultLocale) ==
    IF ~Truthy(GetProp(cfg, Key.i18n)) \/ locale = defaultLocale
    THEN <<>>
    ELSE <<"/">> \o locale

\* Builder.getLangPrefix(locale, defaultLocale) for the configuration cfg
getLangPrefix(cfg, locale, defaultLocale) ==
    LET i18n == GetProp(cfg, Key.i18n)
    IN IF ~Truthy(i18n) THEN <<>>
       ELSE LET strategy == OrElse(GetProp(i18n, Key.strategy), StrV(Str.pxd))
            IN IF strategy = StrV(Str.pxd) /\ locale = defaultLocale
               THEN <<>>
               ELSE <<"/">> \o locale

\* this.config.i18n?.defaultLocale || 'de'
BuilderDefaultLocale(cfg) ==
    LET i18n == GetProp(cfg, Key.i18n)
    IN ToStr(OrElse(GetProp(i18n, Key.defaultLocale), StrV(Str.de)))

\* path.join of relative segments: empty segments are dropped
RECURSIVE PathJoin(_)
PathJoin(parts) ==
    IF parts = <<>> THEN <<>>
    ELSE LET rest == PathJoin(Tail(parts))
         IN IF Head(parts) = <<>> THEN rest
            ELSE IF rest = <<>> THEN Head(parts)
            ELSE Head(parts) \o <<"/">> \o rest

\* getOutputPath(slug, locale, defaultLocale), relative to the dist directory
getOutputPath(slug, locale, defaultLocale) ==
    PathJoin((IF locale # <<>> /\ locale # defaultLocale THEN <<locale>> ELSE <<>>)
             \o (IF slug = Str.index THEN <<>> ELSE <<slug>>)
             \o <<Str.indexhtml>>)

\* the locales Builder.build builds every page for:
\* config.i18n?.locales || [config.i18n?.defaultLocale || 'de']
BuildLocales(cfg) ==
    LET Each(locales) ==
            IF Truthy(locales) THEN {locales.v[n].v : n \in DOMAIN locales.v}
            ELSE {BuilderDefaultLocale(cfg)}
    IN Each(GetProp(GetProp(cfg, Key.i18n), Key.locales))

\* the RenderContext of Builder.renderPage/renderBlock for one page and locale:
\* { ...context, currentLang, langPrefix, ...blockInstance }, the BuildContext
\* of buildPage carrying locale, config, slug and outputPath
BuilderContext(cfg, locale, slug, props) ==
    LET defaultLocale == BuilderDefaultLocale(cfg)
        cur == IF locale = <<>> THEN defaultLocale ELSE locale
    IN props
       @@ (Key.currentLang :> StrV(cur))
       @@ (Key.langPrefix :> StrV(getLangPrefix(cfg, cur, defaultLocale)))
       @@ (Key.locale :> StrV(locale))
       @@ (Key.config :> cfg)
       @@ (Key.slug :> StrV(slug))
       @@ (Key.outputPath :> StrV(getOutputPath(slug, locale, defaultLocale)))

----------------------------------------------------------------------------
(* Bounded inputs                                                          *)

\* longest path handed to the url helper
MaxPathLen == 3
\* most elements of a looped sequence
MaxItems == 2
\* most tokens of a generated conditional template
MaxTokens == 3
\* most watcher events handled in one run of the model
MaxEvents == 2
\* most WebSocket clients
MaxClients == 1
\* pages of the project
MaxPages == 2

\* all sequences over alphabet of length 0..n
SeqsUpTo(alphabet, n) == UNION {[1..k -> alphabet] : k \in 0..n}

Tag(body) == Lit.open \o body \o Lit.close
IfTag(cond) == Lit.if \o <<" ">> \o cond \o Lit.close
EachTag(path) == Lit.each \o <<" ">> \o path \o Lit.close

\* project configurations: no i18n, or i18n with a default locale and a strategy
I18n(defaultLocale, strategy) ==
    MapV((Key.defaultLocale :> StrV(defaultLocale))
         @@ (Key.locales :> SeqV(<<StrV(Str.en), StrV(Str.de), StrV(Str.fr)>>))
         @@ (IF strategy = <<>> THEN EmptyMap ELSE (Key.strategy :> StrV(strategy))))

Configs ==
    {MapV(EmptyMap)}
    \cup {MapV(Key.i18n :> I18n(d, st)) : d \in {Str.en, Str.de}, st \in {Str.prefix, Str.pxd, <<>>}}

\* page slugs as getPageSlug gives them: the index page, a page, a page in a
\* directory
PageSlugs == {Str.index, <<"a">>, <<"b", "/", "a">>}

\* url helper calls: {{url:<path>}} with every base URL and locale prefix
UrlPaths == SeqsUpTo({"/", "d", "e"}, MaxPathLen) \ {<<>>}
UrlTemplate(path) == Tag(Name.url \o <<":">> \o path)
UrlContexts ==
    LET BaseUrls == {<<>>, <<"h">>, <<"h","/">>}
        LangPrefixes == {<<>>, <<"/","d","e">>, <<"/","f","r">>}
    IN {(Key.baseUrl :> StrV(bu)) @@ (Key.langPrefix :> StrV(px)) :
            bu \in BaseUrls, px \in LangPrefixes}
       \cup {EmptyMap}

\* conditional templates: the nested forms and every short token sequence
T_nested == IfTag(Key.a) \o IfTag(Key.b) \o <<"X">> \o Lit.endif \o Lit.endif
T_nestedElse == IfTag(Key.a) \o IfTag(Key.b) \o <<"X">> \o Lit.else \o <<"Y">> \o Lit.endif \o Lit.endif
CondTemplates ==
    LET CondTokens == {IfTag(Key.a), IfTag(<<"!">> \o Key.b), Lit.else, Lit.endif, <<"X">>}
    IN {T_nested, T_nestedElse}
       \cup {Join(ts) : ts \in SeqsUpTo(CondTokens, MaxTokens)}
CondContexts ==
    LET CondValues == {BoolV(TRUE), BoolV(FALSE), Undef}
    IN {(IF va = Undef THEN EmptyMap ELSE (Key.a :> va))
        @@ (IF vb = Undef THEN EmptyMap ELSE (Key.b :> vb)) :
            va \in CondValues, vb \in CondValues}

\* loop templates {{#each <path>}}<body>{{/each}}
LoopBodies == {
    Tag(Key.name) \o <<"-">>,
    <<"X">>,
    Tag(Key.name) \o Tag(Key.top),
    IfTag(Key.flag) \o <<"X">> \o Lit.endif,
    IfTag(Key.last) \o <<"X">> \o Lit.endif }
LoopPaths == {Key.items, Key.top, Key.none}
LoopTemplate(path, body) == EachTag(path) \o body \o Lit.endeach
LoopTemplates == {LoopTemplate(path, body) : path \in LoopPaths, body \in LoopBodies}
LoopContexts ==
    LET Elements == {
            MapV(Key.name :> StrV(<<"a">>)),
            MapV((Key.name :> StrV(<<"b">>)) @@ (Key.flag :> BoolV(TRUE))),
            MapV((Key.flag :> BoolV(FALSE)) @@ (Key.top :> StrV(<<"E">>))
                 @@ (Key.index :> NumV(7))) }
    IN {(Key.items :> SeqV(items)) @@ (Key.top :> StrV(<<"T">>))
        @@ (Key.first :> StrV(<<"o">>)) : items \in SeqsUpTo(Elements, MaxItems)}
       \cup {(Key.top :> StrV(<<"T">>)), (Key.items :> StrV(<<"a","b">>)),
             (Key.items :> MapV(Key.name :> StrV(<<"a">>))) @@ (Key.top :> SeqV(<<>>))}

\* helper tags {{<name>:x}}: built-in helpers, unregistered names, inherited
\* members; alone, and between a variable tag and another helper tag
HelperTag(name, args) == Tag(name \o <<":">> \o args)
TagNames == {Name.frobnicate, Name.greet, Name.constructor, Key.toString, Name.valueOf,
             Name.proto, Name.translate, Name.t, Name.langActive, Name.asset}
Around(tag) == {tag,
                Tag(Key.top) \o <<"-">> \o tag \o <<"-">> \o HelperTag(Name.url, <<"/","d">>),
                HelperTag(Name.url, <<"/","d">>) \o tag \o Tag(Key.top)}
HelperTemplates == UNION {Around(HelperTag(name, <<"x">>)) : name \in TagNames}
HelperContexts == {(Key.top :> StrV(<<"T">>)),
                   (Key.top :> StrV(<<"T">>)) @@ (Key.currentLang :> NumV(5))}

\* most registerHelper calls of one engine
MaxRegistrations == 2
\* the names the engine's user registers helpers under
RegisterNames == {Name.translate, Name.greet}
RegisteredTemplates ==
    UNION {Around(HelperTag(name, <<"x">>)) :
              name \in {Name.greet, Name.translate, Name.t, Name.frobnicate}}

\* degenerate inputs: missing paths and keys, loop targets that are not
\* sequences, elements that are not mappings, malformed and unterminated tags,
\* mappings with a key named toString
DegenerateTemplates == {
    Tag(Key.a), Tag(Key.a \o <<".">> \o Key.b \o <<".">> \o Key.k),
    HelperTag(Name.translate, Key.k), HelperTag(Name.currentLang, <<"x">>),
    HelperTag(Name.active, <<"/","a">>), HelperTag(Name.langActive, Str.de),
    HelperTag(Name.url, <<"/","d">>), HelperTag(Name.json, Key.a),
    HelperTag(Name.escape, Key.a), HelperTag(Name.icon, <<"h">>),
    LoopTemplate(Key.a, <<"X">>),
    LoopTemplate(Key.items, Tag(Key.name) \o Tag(<<"0">>) \o <<"-">>),
    EachTag(Key.items) \o <<"X">>, IfTag(Key.a) \o <<"X">>,
    Lit.open \o Key.a, Key.a \o Lit.close, Lit.open \o Name.url \o <<":">> \o Lit.close }
Unprintable == MapV(Key.toString :> StrV(<<"x">>))
DegenerateContexts == {
    EmptyMap,
    (Key.a :> StrV(<<"V">>)),
    (Key.a :> Unprintable),
    (Key.a :> SeqV(<<NumV(1), Null, Undef>>)) @@ (Key.slug :> NumV(0)),
    (Key.items :> SeqV(<<StrV(<<"s">>), NumV(5), Null, SeqV(<<StrV(<<"q">>)>>)>>)),
    (Key.items :> SeqV(<<MapV(Key.name :> Unprintable)>>)),
    (Key.baseUrl :> Unprintable) @@ (Key.activeNav :> Unprintable),
    (Key.localeData :> MapV(Key.k :> Unprintable)) }

\* longest template of braces and text
MaxPlainLen == 4
\* every short text over a letter and the two brace characters
PlainTemplates == SeqsUpTo({"{", "}", "a"}, MaxPlainLen)
PlainContexts == {EmptyMap, (Key.a :> StrV(<<"V">>))}

\* translate / t tags for keys with a string entry (top-level and nested),
\* with an empty entry, with a mapping as entry, and with no entry
TranslateKeys == {Key.k, Key.a \o <<".">> \o Key.b, Key.none, Key.a \o <<".">> \o Key.none,
                  Key.flag, Key.a, Key.k \o <<".">> \o Key.length}
TranslateTemplates ==
    {HelperTag(name, key) : name \in {Name.translate, Name.t}, key \in TranslateKeys}
TranslateContexts ==
    LET Dictionary == MapV((Key.k :> StrV(<<"h","i">>)) @@ (Key.flag :> StrV(<<>>))
                           @@ (Key.a :> MapV(Key.b :> StrV(<<"y","o">>))))
    IN {EmptyMap, (Key.localeData :> Dictionary)}

\* data whose text looks like a tag: a translation, an element value and a
\* context value equal to "{{title}}", each substituted by one tag
QuotedTagTemplates == {HelperTag(Name.t, Key.k), LoopTemplate(Key.items, Tag(Key.name)),
                       Tag(Key.a)}

\* longest generated text handed to the escape helper
MaxEscapeLen == 2
\* {{escape:a}} for every short text over the characters the helper rewrites
\* and a letter, and for some longer runs of braces and entities
EscapeContexts ==
    LET EscapeValues ==
            SeqsUpTo({"<", ">", "\"", "'", "&", "{", "}", "a"}, MaxEscapeLen)
            \cup {<<"{","{","{">>, <<"}","}","}">>, Tag(Key.a), <<"&","a","m","p",";">>,
                  <<"{","&","{","}","'","}">>}
    IN {(Key.a :> StrV(value)) : value \in EscapeValues}

\* {{active:<path>}} and {{active:<path>,<customClasses>}}: the arguments of
\* the tag, and pages with and without an activeNav entry
ActiveArgs == {<<p>> : p \in {<<"/","a">>, <<"/","a","/">>, <<"a">>, <<"/">>, <<"/","b">>}}
              \cup {<<<<"/","a">>, <<"c"," ","d">>>>, <<<<"/","a","/">>, <<"c">>>>,
                    <<<<"/","b">>, <<"c">>>>, <<<<"/","a">>, <<>>>>, <<<<"/">>, <<"c">>>>}
ActiveTag(a) ==
    HelperTag(Name.active, IF Len(a) = 1 THEN a[1] ELSE a[1] \o <<",">> \o a[2])
ActiveTemplates == {ActiveTag(a) : a \in ActiveArgs}
ActiveContexts ==
    {(IF nav = <<"-">> THEN EmptyMap ELSE (Key.activeNav :> StrV(nav)))
     @@ (IF slug = <<"-">> THEN EmptyMap ELSE (Key.slug :> StrV(slug)))
        : nav \in {<<"-">>, <<>>, <<"a">>, <<"a","/">>, <<"b">>},
          slug \in {<<"-">>, <<>>, <<"a">>, <<"b">>, <<"i","n","d","e","x">>}}

\* an opening tag without its closing tag, followed by text, between
\* well-formed tags and blocks of the other kinds
Openers == {IfTag(Key.a), EachTag(Key.items)}
WellFormed == {<<>>, Tag(Key.top), HelperTag(Name.url, <<"/","d">>), Lit.else \o <<"Z">>,
               IfTag(Key.flag) \o <<"Y">> \o Lit.endif,
               LoopTemplate(Key.items, Tag(Key.name))}
UnterminatedTemplates ==
    UNION {{pre \o op \o <<"X">> \o post : pre \in WellFormed,
               post \in {w \in WellFormed :
                    IndexFrom(w, 1, IF op = IfTag(Key.a) THEN Lit.endif ELSE Lit.endeach) = 0}}
           : op \in Openers}
UnterminatedContexts ==
    {(Key.top :> StrV(<<"T">>)) @@ (Key.a :> BoolV(TRUE)) @@ (Key.flag :> BoolV(flag))
     @@ (Key.items :> SeqV(<<MapV(Key.name :> StrV(<<"a">>)), MapV(Key.name :> StrV(<<"b">>))>>))
        : flag \in BOOLEAN}

\* if-blocks placed inside the characters of another tag: "{{#" and "if b}}"
\* around an empty block, and "{{" and "#if b}}" around and inside a block
JoinedMarkerTemplates == {
    <<"{","{","#">> \o IfTag(Key.a) \o Lit.endif \o <<"i","f"," ","b","}","}">>
        \o <<"X">> \o Lit.endif,
    Lit.open \o IfTag(Key.a) \o <<"#","i","f"," ","b","}","}","Y">> \o Lit.open
        \o Lit.endif \o <<"#","i","f"," ","b","}","}","Z">> \o Lit.endif \o Lit.endif }

\* one block {{#if <bangs><path>}}X{{/if}} or {{#if <bangs><path>}}X{{#else}}Y{{/if}}
\* with 0, 1 or 2 leading "!" and the path a or a.b, for values of every kind
\* at the path (and for no value there)
TruthTemplate(bangs, path, withElse) ==
    IfTag([i \in 1..bangs |-> "!"] \o path) \o <<"X">>
    \o (IF withElse THEN Lit.else \o <<"Y">> ELSE <<>>) \o Lit.endif
TruthCalls ==
    LET values == {Null, BoolV(TRUE), BoolV(FALSE), NumV(0), NumV(1), StrV(<<>>),
                   StrV(<<"s">>), SeqV(<<>>), SeqV(<<StrV(<<>>)>>), MapV(EmptyMap)}
        contexts == {EmptyMap} \cup {(Key.a :> val) : val \in values}
                    \cup {(Key.a :> MapV(Key.b :> val)) : val \in values}
    IN {TruthTemplate(bangs, path, withElse) :
            bangs \in 0..2, path \in {Key.a, Key.a \o <<".">> \o Key.b},
            withElse \in BOOLEAN} \X contexts

\* one variable tag {{<path>}}: paths of one to three keys that end at a
\* value, leave the data at the first, second or third key, pass through null,
\* a string or a sequence, or name a member every object inherits
ResolverCalls ==
    LET dot(p, q) == p \o <<".">> \o q
        paths ==
            {Key.a, dot(Key.a, Key.b), dot(dot(Key.a, Key.b), Key.k), Key.none,
             dot(Key.none, Key.b), dot(dot(Key.a, Key.none), Key.k),
             dot(dot(Key.a, Key.b), Key.none), dot(Key.a, <<"0">>), dot(Key.a, <<"1">>),
             dot(Key.a, Key.length),
             Name.constructor, Key.toString, Name.valueOf, Name.proto,
             dot(Key.a, Name.constructor), dot(dot(Key.a, Key.none), Name.constructor)}
        contexts ==
            {EmptyMap, (Key.a :> StrV(<<"V">>)), (Key.a :> Null), (Key.a :> NumV(0)),
             (Key.a :> BoolV(FALSE)), (Key.a :> SeqV(<<StrV(<<"s">>), Null>>)),
             (Key.a :> MapV(EmptyMap)), (Key.a :> MapV(Key.b :> Null)),
             (Key.a :> MapV(Key.b :> StrV(<<>>))),
             (Key.a :> MapV(Key.b :> MapV(Key.k :> StrV(<<"h","i">>))))}
    IN {Tag(path) : path \in paths} \X contexts

\* the names of three built-in helpers as tags without a colon, with a colon
\* and no argument, and with an argument; contexts with and without a value
\* under those names
ColonNames == {Name.currentLang, Name.langPrefix, Name.year}
ColonCalls ==
    {tag : tag \in UNION {{Tag(name), Tag(name \o <<":">>), HelperTag(name, <<"_">>)} :
                             name \in ColonNames}}
    \X {EmptyMap, (Key.currentLang :> StrV(Str.fr)) @@ (Key.langPrefix :> StrV(<<"/","f","r">>)),
        (Name.year :> NumV(1999))}

\* a loop over items written inside the body of another loop over items:
\* {{#each items}}A{{#each items}}<inner>{{/each}}C{{/each}}
NestedEach(inner) ==
    EachTag(Key.items) \o <<"A">> \o LoopTemplate(Key.items, inner) \o <<"C">> \o Lit.endeach

\* what a direct caller of render supplies (config is the empty object)
Calls ==
    {<<UrlTemplate(p), c>> : p \in UrlPaths, c \in UrlContexts}
    \cup (CondTemplates \X CondContexts)
    \cup (LoopTemplates \X LoopContexts)
    \cup (HelperTemplates \X HelperContexts)
    \cup (DegenerateTemplates \X DegenerateContexts)
    \cup (PlainTemplates \X PlainContexts)
    \cup (TranslateTemplates \X TranslateContexts)
    \cup (QuotedTagTemplates
          \X {(Key.title :> StrV(<<"T">>)) @@ (Key.a :> StrV(Tag(Key.title)))
               @@ (Key.localeData :> MapV(Key.k :> StrV(Tag(Key.title))))
               @@ (Key.items :> SeqV(<<MapV(Key.name :> StrV(Tag(Key.title)))>>))})
    \cup ({HelperTag(Name.escape, Key.a)} \X EscapeContexts)
    \cup (ActiveTemplates \X ActiveContexts)
    \cup (UnterminatedTemplates \X UnterminatedContexts)
    \cup (JoinedMarkerTemplates \X CondContexts)
    \cup TruthCalls
    \cup ResolverCalls
    \cup ColonCalls
    \cup ({NestedEach(<<"B">>), NestedEach(Tag(Key.name))} \X LoopContexts)

\* the calls made once helpers have been registered exercise the helper tags
CallsAfter(regs) ==
    IF regs = <<>> THEN Calls ELSE RegisteredTemplates \X {(Key.top :> StrV(<<"T">>))}

\* pages the Builder renders: block templates with their block properties
PageTemplates == {UrlTemplate(<<"/">>), UrlTemplate(<<"/","d">>), Tag(Key.langPrefix),
                  LoopTemplate(Key.items, Tag(Key.name) \o <<"-">>)}
PageProps == {EmptyMap, (Key.items :> SeqV(<<MapV(Key.name :> StrV(<<"a">>))>>))}

----------------------------------------------------------------------------
(* The state machine                                                       *)

Init ==
    /\ helpers = DefaultHelpers
    /\ registrations = <<>>
    /\ template = <<>>
    /\ context = EmptyMap
    /\ output = <<>>
    /\ previousOutput = <<>>
    /\ loopContexts = <<>>
    /\ pc = "idle"
    /\ builds = <<>>
    /\ dist = {}
    /\ watching = FALSE
    /\ clients = {}
    /\ inbox = [c \in 1..MaxClients |-> 0]

\* the engine's user calls engine.registerHelper(name, fn)
RegisterHelper(name, fn) ==
    /\ pc = "idle"
    /\ Len(registrations) < MaxRegistrations
    /\ helpers' = Registered(helpers, name, fn)
    /\ registrations' = Append(registrations, <<name, fn>>)
    /\ UNCHANGED <<template, context, output, previousOutput, loopContexts, pc>>
    /\ UNCHANGED devVars

\* a direct caller (the engine's public API) starts engine.render(template, context)
CallRender(tpl, ctx) ==
    /\ pc = "idle"
    /\ template' = tpl
    /\ context' = ctx @@ (Key.config :> MapV(EmptyMap))
    /\ output' = tpl
    /\ previousOutput' = <<>>
    /\ loopContexts' = <<>>
    /\ pc' = "conditionals"
    /\ UNCHANGED <<helpers, registrations>>
    /\ UNCHANGED devVars

\* Builder.build loads the configuration cfg; renderPage / renderBlock start
\* engine.render for one page and locale.  The Builder registers no helpers.
BuildPage(cfg, tpl, locale, slug, props) ==
    /\ pc = "idle"
    /\ registrations = <<>>
    /\ template' = tpl
    /\ context' = BuilderContext(cfg, locale, slug, props)
    /\ output' = tpl
    /\ previousOutput' = <<>>
    /\ loopContexts' = <<>>
    /\ pc' = "conditionals"
    /\ UNCHANGED <<helpers, registrations>>
    /\ UNCHANGED devVars

\* processConditionals: one iteration of the while loop
ConditionalsPass ==
    /\ pc = "conditionals"
    /\ LoopContinues(output, previousOutput)
    /\ previousOutput' = output
    /\ output' = ReplaceIfs(output, 1, context)
    /\ UNCHANGED <<helpers, registrations, template, context, loopContexts, pc>>
    /\ UNCHANGED devVars

\* processConditionals: the loop condition fails, return output;
\* render: output = this.processConditionals(output, context)
ProcessConditionals ==
    /\ pc = "conditionals"
    /\ ~LoopContinues(output, previousOutput)
    /\ previousOutput' = <<>>
    /\ pc' = "loops"
    /\ UNCHANGED <<helpers, registrations, template, context, output, loopContexts>>
    /\ UNCHANGED devVars

\* variant: the element and the loop metadata are assigned into the context
\* object itself instead of a copy
ProcessLoops_Assign ==
    /\ pc = "loops"
    /\ LET Assign(out) ==
               /\ output' = (IF out = Uncaught THEN output ELSE out)
               /\ pc' = (IF out = Uncaught THEN "threw" ELSE "helpers")
       IN Assign(processLoops(helpers, output, context))
    /\ loopContexts' = LoopContextsFrom(output, 1, context)
    /\ context' = (IF loopContexts' = <<>> THEN context
                   ELSE loopContexts'[Len(loopContexts')])
    /\ UNCHANGED <<helpers, registrations, template, previousOutput>>
    /\ UNCHANGED devVars

\* render: output = this.processLoops(output, context)
ProcessLoops ==
    /\ pc = "loops"
    /\ LET Assign(out) ==
               /\ output' = (IF out = Uncaught THEN output ELSE out)
               /\ pc' = (IF out = Uncaught THEN "threw" ELSE "helpers")
       IN Assign(processLoops(helpers, output, context))
    /\ loopContexts' = LoopContextsFrom(output, 1, context)
    /\ UNCHANGED <<helpers, registrations, template, context, previousOutput>>
    /\ UNCHANGED devVars

\* render: output = this.processHelpers(output, context)
ProcessHelpers ==
    /\ pc = "helpers"
    /\ LET Assign(out) ==
               /\ output' = (IF out = Uncaught THEN output ELSE out)
               /\ pc' = (IF out = Uncaught THEN "threw" ELSE "variables")
       IN Assign(processHelpers(helpers, output, context))
    /\ UNCHANGED <<helpers, registrations, template, context, previousOutput, loopContexts>>
    /\ UNCHANGED devVars

\* render: output = this.processVariables(output, context); return output
ProcessVariables ==
    /\ pc = "variables"
    /\ LET Assign(out) ==
               /\ output' = (IF out = Uncaught THEN output ELSE out)
               /\ pc' = (IF out = Uncaught THEN "threw" ELSE "done")
       IN Assign(processVariables(output, context))
    /\ UNCHANGED <<helpers, registrations, template, context, previousOutput, loopContexts>>
    /\ UNCHANGED devVars

\* the caller takes the result; the engine is ready for the next call
Return ==
    /\ pc = "done"
    /\ template' = <<>>
    /\ context' = EmptyMap
    /\ output' = <<>>
    /\ loopContexts' = <<>>
    /\ pc' = "idle"
    /\ UNCHANGED <<helpers, registrations, previousOutput>>
    /\ UNCHANGED devVars

\* the exception a stage did not catch leaves render and reaches the caller
Throw ==
    /\ pc = "threw"
    /\ template' = <<>>
    /\ context' = EmptyMap
    /\ output' = <<>>
    /\ loopContexts' = <<>>
    /\ pc' = "idle"
    /\ UNCHANGED <<helpers, registrations, previousOutput>>
    /\ UNCHANGED devVars

Next ==
    \/ \E name \in RegisterNames, fn \in CustomHelpers : RegisterHelper(name, fn)
    \/ \E call \in CallsAfter(registrations) : CallRender(call[1], call[2])
    \/ \E cfg \in Configs, tpl \in PageTemplates, slug \in PageSlugs, props \in PageProps :
          \E locale \in BuildLocales(cfg) : BuildPage(cfg, tpl, locale, slug, props)
    \/ ConditionalsPass
    \/ ProcessConditionals
    \/ ProcessLoops
    \/ ProcessHelpers
    \/ ProcessVariables
    \/ Return
    \/ Throw

Spec == Init /\ [][Next]_vars

\* the steps of a render call in progress
Stage ==
    ConditionalsPass \/ ProcessConditionals \/ ProcessLoops \/ ProcessHelpers
    \/ ProcessVariables

\* ENABLED <<Stage>>_vars written out: a stage can take a step that changes the
\* state.  A pass of the conditional loop that would leave output and
\* previousOutput as they are is no such step.
StageEnabled ==
    \/ pc \in {"loops", "helpers", "variables"}
    \/ pc = "conditionals" /\ ~LoopContinues(output, previousOutput)
    \/ /\ pc = "conditionals"
       /\ LoopContinues(output, previousOutput)
       /\ (previousOutput # output \/ ReplaceIfs(output, 1, context) # output)

\* render is one synchronous call: a stage that can take a step takes it (weak
\* fairness of Stage, with its ENABLED written out as StageEnabled), and the
\* result or the exception reaches the caller
FairSpec ==
    /\ Spec
    /\ ([]<>~StageEnabled \/ []<><<Stage>>_vars)
    /\ WF_vars(Return) /\ WF_vars(Throw)

----------------------------------------------------------------------------
(* The dev server: builds started by the file watcher                       *)

\* what a finished build leaves in dist: one file per page, and (numbered
\* after the pages) the assets, stylesheets, scripts, sitemap and robots.txt
OutputFiles == 1..(MaxPages + 1)

\* devCommand: await builder.build(...) before the watcher exists
InitialBuild ==
    /\ builds = <<>>
    /\ builds' = <<[event |-> "initial", at |-> "loadConfig", page |-> 0]>>
    /\ UNCHANGED <<dist, watching, clients, inbox>>
    /\ UNCHANGED engineVars

\* a watcher handler ('change', 'add' or 'unlink'): it runs up to the first
\* await of builder.build, whatever other builds are under way
WatchEvent(kind) ==
    /\ watching
    /\ Len(builds) <= MaxEvents
    /\ builds' = Append(builds, [event |-> kind, at |-> "loadConfig", page |-> 0])
    /\ UNCHANGED <<dist, watching, clients, inbox>>
    /\ UNCHANGED engineVars

\* Builder.build: this.config = await loadConfig()
LoadConfig(b) ==
    /\ builds[b].at = "loadConfig"
    /\ builds' = [builds EXCEPT ![b].at = "emptyDir"]
    /\ UNCHANGED <<dist, watching, clients, inbox>>
    /\ UNCHANGED engineVars

\* Builder.build: await fs.emptyDir(this.distPath)
EmptyDir(b) ==
    /\ builds[b].at = "emptyDir"
    /\ dist' = {}
    /\ builds' = [builds EXCEPT ![b].at = "pages"]
    /\ UNCHANGED <<watching, clients, inbox>>
    /\ UNCHANGED engineVars

\* Builder.build: await this.buildPage(...) writes the next page
WritePage(b) ==
    /\ builds[b].at = "pages"
    /\ builds[b].page < MaxPages
    /\ dist' = dist \cup {builds[b].page + 1}
    /\ builds' = [builds EXCEPT ![b].page = @ + 1]
    /\ UNCHANGED <<watching, clients, inbox>>
    /\ UNCHANGED engineVars

\* Builder.build: assets, CSS, scripts and SEO files are written and build
\* returns.  The watcher handler goes on to notifyClients(), which sends
\* "reload" to every open client; devCommand goes on to start the watcher.
Finish(b) ==
    /\ builds[b].at = "pages"
    /\ builds[b].page = MaxPages
    /\ dist' = dist \cup {MaxPages + 1}
    /\ builds' = [builds EXCEPT ![b].at = "done"]
    /\ IF builds[b].event = "initial"
       THEN watching' = TRUE /\ UNCHANGED inbox
       ELSE /\ inbox' = [c \in DOMAIN inbox |-> IF c \in clients THEN inbox[c] + 1 ELSE inbox[c]]
            /\ UNCHANGED watching
    /\ UNCHANGED clients
    /\ UNCHANGED engineVars

\* an await of Builder.build rejects (a template is missing, a file cannot be
\* written): the handler's catch logs it and sends nothing; devCommand ends
\* without a watcher
BuildFails(b) ==
    /\ builds[b].at \in {"loadConfig", "emptyDir", "pages"}
    /\ builds' = [builds EXCEPT ![b].at = "failed"]
    /\ UNCHANGED <<dist, watching, clients, inbox>>
    /\ UNCHANGED engineVars

\* wss.on('connection')
Connect(c) ==
    /\ c \notin clients
    /\ clients' = clients \cup {c}
    /\ UNCHANGED <<builds, dist, watching, inbox>>
    /\ UNCHANGED engineVars

\* ws.on('close')
Disconnect(c) ==
    /\ c \in clients
    /\ clients' = clients \ {c}
    /\ UNCHANGED <<builds, dist, watching, inbox>>
    /\ UNCHANGED engineVars

DevNext ==
    \/ InitialBuild
    \/ \E kind \in {"change", "add", "unlink"} : WatchEvent(kind)
    \/ \E b \in DOMAIN builds : LoadConfig(b)
    \/ \E b \in DOMAIN builds : EmptyDir(b)
    \/ \E b \in DOMAIN builds : WritePage(b)
    \/ \E b \in DOMAIN builds : Finish(b)
    \/ \E b \in DOMAIN builds : BuildFails(b)
    \/ \E c \in 1..MaxClients : Connect(c)
    \/ \E c \in 1..MaxClients : Disconnect(c)

DevSpec == Init /\ [][DevNext]_vars

----------------------------------------------------------------------------
(* Properties                                                              *)

\* val can be converted to a string wherever it is: no mapping in it has an
\* own entry "toString"
RECURSIVE Convertible(_)
Convertible(val) ==
    CASE val.t = "map" -> /\ Key.toString \notin DOMAIN val.v
                          /\ \A k \in DOMAIN val.v : Convertible(val.v[k])
      [] val.t = "seq" -> \A i \in 1..Len(val.v) : Convertible(val.v[i])
      [] OTHER -> TRUE

\* context.key || '' as a string
CtxStr(ctx, key) == IF key \in DOMAIN ctx /\ Truthy(ctx[key]) THEN ToStr(ctx[key]) ELSE <<>>

\* p with a leading "/" added if missing and one trailing "/" removed if present
WithLeadingSlash(p) == IF p # <<>> /\ p[1] = "/" THEN p ELSE <<"/">> \o p
WithoutTrailingSlash(q) ==
    IF Len(q) > 1 /\ q[Len(q)] = "/" THEN SubSeq(q, 1, Len(q) - 1) ELSE q
ExpectedPath(p) == WithoutTrailingSlash(WithLeadingSlash(p))

\* C1: the url helper applied to the root path "/" returns baseUrl followed by
\* "/" only, whatever the locale prefix of the context is.
C1_RootPathNeverPrefixed ==
    (pc = "done" /\ template = UrlTemplate(<<"/">>))
        => output = CtxStr(context, Key.baseUrl) \o <<"/">>

HasLocaleSegment(p) ==
    /\ Len(p) >= 3
    /\ SubSeq(p, 1, 3) = <<"/","d","e">>
    /\ (Len(p) = 3 \/ p[4] = "/")

\* C3: a path whose first segment is already an explicit locale code gets no
\* locale prefix: url returns that path prefixed only by baseUrl, for every
\* current locale.
C3_ExplicitLocaleNotPrefixed ==
    \A p \in UrlPaths :
        (pc = "done" /\ template = UrlTemplate(p) /\ HasLocaleSegment(p))
            => output = CtxStr(context, Key.baseUrl) \o ExpectedPath(p)

\* C4: baseUrl and the root path are joined with exactly one slash: when baseUrl
\* ends in "/", {{url:/}} renders exactly baseUrl.
C4_RootJoinedWithOneSlash ==
    (/\ pc = "done"
     /\ template = UrlTemplate(<<"/">>)
     /\ EndsWith(CtxStr(context, Key.baseUrl), <<"/">>))
        => output = CtxStr(context, Key.baseUrl)

\* the i18n settings of the configuration in a context the Builder made
BuiltI18n == context[Key.config].v[Key.i18n].v
BuiltByBuilder == pc # "idle" /\ Key.locale \in DOMAIN context
BuiltWithI18n == BuiltByBuilder /\ Key.i18n \in DOMAIN context[Key.config].v
BuiltStrategy == IF Key.strategy \in DOMAIN BuiltI18n THEN BuiltI18n[Key.strategy].v ELSE <<>>

\* C5: the locale prefix is empty with i18n disabled; with prefix_except_default it
\* is empty exactly when locale = defaultLocale and "/" + locale otherwise; with
\* prefix it is "/" + locale, also for the default locale.
C5_LangPrefix ==
    LET locale == context[Key.locale].v
        prefix == context[Key.langPrefix].v
    IN /\ (BuiltByBuilder /\ ~BuiltWithI18n) => prefix = <<>>
       /\ (BuiltWithI18n /\ BuiltStrategy = Str.pxd) =>
             /\ (prefix = <<>>) <=> (locale = BuiltI18n[Key.defaultLocale].v)
             /\ (prefix # <<>>) => (prefix = <<"/">> \o locale)
       /\ (BuiltWithI18n /\ BuiltStrategy = Str.prefix) => prefix = <<"/">> \o locale

\* strategy prefix, the default locale itself: the prefix is "/en"
C5_Witness ==
    /\ BuiltWithI18n
    /\ BuiltStrategy = Str.prefix
    /\ context[Key.locale].v = Str.en
    /\ BuiltI18n[Key.defaultLocale].v = Str.en
    /\ context[Key.langPrefix].v = <<"/","e","n">>

\* the value of key k in the context is truthy
IsSet(k) == k \in DOMAIN context /\ Truthy(context[k])

\* C6: "{{#if a}}{{#if b}}X{{/if}}{{/if}}" renders "X" when a and b are truthy and
\* the empty string otherwise, with no leftover tag text.
C6_NestedIf ==
    (pc = "done" /\ template = T_nested)
        => output = (IF IsSet(Key.a) /\ IsSet(Key.b) THEN <<"X">> ELSE <<>>)

\* C7: in "{{#if a}}{{#if b}}X{{#else}}Y{{/if}}{{/if}}" the {{#else}} belongs to
\* the inner block: "X" for a, b truthy, "Y" for a truthy and b falsy, "" for a
\* falsy.
C7_NestedIfElse ==
    (pc = "done" /\ template = T_nestedElse)
        => output = (IF ~IsSet(Key.a) THEN <<>>
                     ELSE IF IsSet(Key.b) THEN <<"X">> ELSE <<"Y">>)

\* the text between {{#each path}} and a final {{/each}}
BodyOf(text, path) == Sub(text, Len(EachTag(path)) + 1, Len(text) - Len(Lit.endeach))

\* the names of the elements, each followed by "-"
RECURSIVE NamesDashed(_)
NamesDashed(items) ==
    IF items = <<>> THEN <<>>
    ELSE (IF Key.name \in DOMAIN Head(items).v THEN Head(items).v[Key.name].v ELSE <<>>)
         \o <<"-">> \o NamesDashed(Tail(items))

\* C8: processLoops expands "{{#each p}}body{{/each}}" to the concatenation, in
\* element order and with no separator, of body rendered once per element of the
\* sequence at p, and to the empty string when p resolves to an empty sequence,
\* a non-sequence or nothing; body "{{name}}-" renders each name followed by "-"
\* (the context's values being ones that convert to strings).
C8_LoopStep ==
    /\ \A path \in LoopPaths :
          (/\ pc = "loops"
           /\ output = LoopTemplate(path, BodyOf(output, path))
           /\ IndexFrom(BodyOf(output, path), 1, Lit.endeach) = 0
           /\ Convertible(MapV(context)))
             => LET value == Field(context, path)
                IN IF value.t = "seq"
                   THEN /\ Len(loopContexts') = Len(value.v)
                        /\ output' = Join([i \in 1..Len(value.v) |->
                                render(helpers, BodyOf(output, path), loopContexts'[i])])
                   ELSE output' = <<>>
    /\ (/\ pc = "done"
        /\ template = LoopTemplate(Key.items, Tag(Key.name) \o <<"-">>))
          => output = (IF Field(context, Key.items).t = "seq"
                       THEN NamesDashed(context[Key.items].v) ELSE <<>>)

C8_Loop == [][C8_LoopStep]_vars

\* items [{name: a}, {name: b, ...}] have been rendered as "a-b-"
C8_Witness ==
    /\ pc = "done"
    /\ template = LoopTemplate(Key.items, Tag(Key.name) \o <<"-">>)
    /\ Field(context, Key.items).t = "seq"
    /\ Len(context[Key.items].v) = 2
    /\ output = <<"a","-","b","-">>

\* "X" for each element whose flag is truthy
RECURSIVE XPerFlag(_)
XPerFlag(items) ==
    IF items = <<>> THEN <<>>
    ELSE (IF Key.flag \in DOMAIN Head(items).v /\ Truthy(Head(items).v[Key.flag])
          THEN <<"X">> ELSE <<>>) \o XPerFlag(Tail(items))

\* C9: tags inside a loop body, conditionals included, are evaluated against the
\* loop-local context: "{{#each items}}{{#if flag}}X{{/if}}{{/each}}", flag a key
\* of the elements only, emits X exactly for the elements whose flag is truthy.
C9_ConditionalInLoopBody ==
    (/\ pc = "done"
     /\ template = LoopTemplate(Key.items, IfTag(Key.flag) \o <<"X">> \o Lit.endif)
     /\ Field(context, Key.items).t = "seq"
     /\ Key.flag \notin DOMAIN context)
        => output = XPerFlag(context[Key.items].v)

MetaKeys == {Key.index, Key.first, Key.last}

\* C10: in the loop-local context an element key overrides the same-named outer
\* key, the three metadata keys override both, and every other outer key stays
\* visible unchanged.
C10_LoopContextMerge ==
    (/\ pc \in {"helpers", "variables", "done"}
     /\ \E body \in LoopBodies : template = LoopTemplate(Key.items, body)
     /\ Field(context, Key.items).t = "seq")
        => LET items == context[Key.items].v
           IN /\ Len(loopContexts) = Len(items)
              /\ \A i \in 1..Len(items) :
                    LET lc == loopContexts[i]
                        el == items[i].v
                    IN /\ DOMAIN lc = DOMAIN context \cup DOMAIN el \cup MetaKeys
                       /\ lc[Key.index] = NumV(i - 1)
                       /\ lc[Key.first] = BoolV(i = 1)
                       /\ lc[Key.last] = BoolV(i = Len(items))
                       /\ \A k \in DOMAIN el \ MetaKeys : lc[k] = el[k]
                       /\ \A k \in DOMAIN context \ (DOMAIN el \cup MetaKeys) :
                             lc[k] = context[k]

\* an element with its own "top" and "@index" keys under an outer context that
\* has "top" and "@first": element, metadata and outer values are all in place
C10_Witness ==
    /\ pc = "helpers"
    /\ Len(loopContexts) = 2
    /\ context[Key.top] = StrV(<<"T">>)
    /\ context[Key.first] = StrV(<<"o">>)
    /\ Field(context[Key.items].v[2].v, Key.top) = StrV(<<"E">>)
    /\ Field(context[Key.items].v[2].v, Key.index) = NumV(7)
    /\ loopContexts[2][Key.top] = StrV(<<"E">>)
    /\ loopContexts[2][Key.index] = NumV(1)
    /\ loopContexts[2][Key.first] = BoolV(FALSE)
    /\ loopContexts[1][Key.top] = StrV(<<"T">>)

----------------------------------------------------------------------------
(* Helper tags: unknown names, throwing helpers                            *)

\* what the tags around the helper tag under test render to
RenderedAround(tpl, tag, text, ctx) ==
    CASE tpl = tag -> text
      [] tpl = Tag(Key.top) \o <<"-">> \o tag \o <<"-">> \o HelperTag(Name.url, <<"/","d">>) ->
            ToStr(Field(ctx, Key.top)) \o <<"-">> \o text \o <<"-","/","d">>
      [] tpl = HelperTag(Name.url, <<"/","d">>) \o tag \o Tag(Key.top) ->
            <<"/","d">> \o text \o ToStr(Field(ctx, Key.top))
      [] OTHER -> tpl

\* C11: a helper tag whose name is not registered appears in the output as
\* exactly its original text, no exception is raised, and the other tags of the
\* template are rendered normally.
C11_UnknownHelperTagKept ==
    \A name \in TagNames :
        LET tag == HelperTag(name, <<"x">>)
        IN (/\ name \notin DOMAIN helpers
            /\ template \in Around(tag)
            /\ pc \in {"done", "threw"})
              => /\ pc = "done"
                 /\ output = RenderedAround(template, tag, tag, context)

\* the call of the helper registered under name throws in the current context:
\* a registered function that throws, 't' delegating to one, or langActive
\* calling toLowerCase on a currentLang that is a number
ThrowsHere(name) ==
    /\ name \in DOMAIN helpers
    /\ \/ helpers[name] = "throws"
       \/ helpers[name] = "t" /\ helpers[Name.translate] = "throws"
       \/ helpers[name] = "langActive" /\ Field(context, Key.currentLang).t = "num"

\* C12: when a registered helper throws while invoked for a tag, the exception
\* is caught, the tag's text stays unchanged in the output, and the tags before
\* and after it are still rendered.
C12_ThrowingHelperTagKept ==
    \A name \in TagNames :
        LET tag == HelperTag(name, <<"x">>)
        IN (/\ ThrowsHere(name)
            /\ template \in Around(tag)
            /\ pc \in {"done", "threw"})
              => /\ pc = "done"
                 /\ output = RenderedAround(template, tag, tag, context)

\* a built-in replaced by a function that throws, between two rendered tags
C12_Witness ==
    /\ pc = "done"
    /\ helpers[Name.translate] = "throws"
    /\ template = Tag(Key.top) \o <<"-">> \o HelperTag(Name.t, <<"x">>) \o <<"-">>
                  \o HelperTag(Name.url, <<"/","d">>)
    /\ output = <<"T","-">> \o HelperTag(Name.t, <<"x">>) \o <<"-","/","d">>

----------------------------------------------------------------------------
(* Totality                                                                *)

\* C13: render is total: for every template and every tree-shaped context it
\* returns a string and no exception propagates to the caller.
C13_RenderTotal == pc # "threw"

----------------------------------------------------------------------------
(* Templates without tags                                                  *)

\* the text holds no tag: no "{{" with a "}}" after it
NoTags(tpl) ==
    ~\E i \in 1..Len(tpl) : StartsAt(tpl, i, Lit.open) /\ IndexFrom(tpl, i + 2, Lit.close) # 0

\* C14: for every template that contains no tags and every context,
\* render(template, context) equals the template unchanged.
C14_NoTagsIdentity ==
    (NoTags(template) /\ pc \in {"done", "threw"}) => (pc = "done" /\ output = template)

\* single braces around the name of a key the context has
C14_Witness ==
    /\ pc = "done"
    /\ template = <<"{","a","}","}">>
    /\ Field(context, Key.a) = StrV(<<"V">>)
    /\ output = template

----------------------------------------------------------------------------
(* translate                                                               *)

\* the entry of a dictionary at a dotted key: the value reached through the
\* mappings' own keys, Undef when a key on the way is missing
RECURSIVE Entry(_, _)
Entry(dict, keys) ==
    IF keys = <<>> THEN dict
    ELSE IF dict.t = "map" /\ Head(keys) \in DOMAIN dict.v
         THEN Entry(dict.v[Head(keys)], Tail(keys))
         ELSE Undef

\* C15: translate and its alias t return the string stored at the dotted key in
\* the locale dictionary, and the key itself verbatim whenever the dictionary is
\* missing from the context or the key has no entry in it.
C15_Translate ==
    \A name \in {Name.translate, Name.t}, key \in TranslateKeys :
        (/\ pc = "done"
         /\ registrations = <<>>
         /\ template = HelperTag(name, key))
            => LET entry == Entry(Field(context, Key.localeData), Split(key, "."))
               IN /\ entry.t = "str" => output = entry.v
                  /\ entry.t = "undef" => output = key

----------------------------------------------------------------------------
(* Termination of the conditional loop                                     *)

\* C16: the conditional-reprocessing loop always terminates, also for templates
\* with unterminated or unbalanced {{#if}} / {{/if}} markers: once a pass has
\* left the output unchanged (output = previousOutput) no further pass is made,
\* processConditionals exits, and the render call as a whole comes to its end
\* and control is back at the caller.
C16_ConditionalsTerminate ==
    /\ [][(pc = "conditionals" /\ output = previousOutput) => pc' # "conditionals"]_vars
    /\ (pc = "conditionals") ~> (pc = "loops")
    /\ (pc = "conditionals") ~> (pc = "idle")

\* a pass changed the output and left an unterminated marker behind; the loop
\* has exited
C16_Witness ==
    /\ pc = "loops"
    /\ template = IfTag(Key.a) \o IfTag(Key.a) \o Lit.endif
    /\ output = IfTag(Key.a)

----------------------------------------------------------------------------
(* Substituted text and later stages                                       *)

\* C17: text that one stage substitutes for a tag is not reinterpreted as a tag
\* by a later stage of the same render call: a translation, a loop element
\* value or a context value equal to "{{title}}" reaches the output verbatim.
C17_SubstitutedTextVerbatim ==
    (/\ pc = "done"
     /\ template \in QuotedTagTemplates
     /\ Field(context, Key.a) = StrV(Tag(Key.title)))
        => output = Tag(Key.title)

----------------------------------------------------------------------------
(* escape                                                                  *)

\* the entities the escape helper produces
Entities == {<<"&","a","m","p",";">>, <<"&","l","t",";">>, <<"&","g","t",";">>,
             <<"&","q","u","o","t",";">>, <<"&","#","3","9",";">>,
             <<"&","#","1","2","3",";">>, <<"&","#","1","2","5",";">>}

\* C18: the escape helper's result, for every string it resolves, contains none
\* of the characters <, >, ", ' unescaped, no "&" other than the start of an
\* entity it produced, and no "{{" or "}}"; no later stage matches it as a tag,
\* so it is also the rendered output.
C18_EscapeResult ==
    (/\ pc \in {"variables", "done"}
     /\ template = HelperTag(Name.escape, Key.a)
     /\ Field(context, Key.a).t = "str")
        => /\ \A i \in 1..Len(output) :
                 /\ output[i] \notin {"<", ">", "\"", "'"}
                 /\ output[i] = "&" => \E e \in Entities : StartsAt(output, i, e)
           /\ IndexFrom(output, 1, Lit.open) = 0
           /\ IndexFrom(output, 1, Lit.close) = 0
           /\ Len(output) >= Len(context[Key.a].v)

\* a text of braces, an ampersand and an apostrophe, escaped and rendered
C18_Witness ==
    /\ pc = "done"
    /\ template = HelperTag(Name.escape, Key.a)
    /\ Field(context, Key.a) = StrV(<<"{","&","{","}","'","}">>)
    /\ output = <<"{","&","a","m","p",";","{","}","&","#","3","9",";","}">>

----------------------------------------------------------------------------
(* registerHelper                                                          *)

\* the function of the latest registerHelper call for name, "none" without one
RECURSIVE LastRegistered(_, _)
LastRegistered(regs, name) ==
    IF regs = <<>> THEN "none"
    ELSE IF regs[Len(regs)][1] = name THEN regs[Len(regs)][2]
         ELSE LastRegistered(SubSeq(regs, 1, Len(regs) - 1), name)

\* C19: after any sequence of registerHelper calls a tag {{name:args}} is
\* dispatched to the function most recently registered under that name, and
\* registering under the name of a built-in helper replaces the built-in: the
\* tag renders "K" when that function returns "K", stays as it is when that
\* function throws, and without a registration renders what the built-in
\* returns (translate: the key) or stays as it is (no helper of that name).
C19_LastRegistrationWins ==
    \A name \in RegisterNames :
        LET tag == HelperTag(name, <<"x">>)
            last == LastRegistered(registrations, name)
        IN /\ last # "none" => helpers[name] = last
           /\ (pc = "done" /\ template = tag)
                 => output = (CASE last = "returnsK" -> <<"K">>
                                [] last = "throws" -> tag
                                [] OTHER -> IF name = Name.translate THEN <<"x">> ELSE tag)

\* translate registered twice, last with the function that returns "K", after
\* a registration under another name
C19_Witness ==
    /\ pc = "done"
    /\ registrations = <<<<Name.translate, "throws">>, <<Name.translate, "returnsK">>>>
    /\ template = HelperTag(Name.translate, <<"x">>)
    /\ output = <<"K">>

----------------------------------------------------------------------------
(* The active helper                                                       *)

WithSlash(path) ==
    IF path # <<>> /\ path[Len(path)] = "/" THEN path ELSE path \o <<"/">>

\* the page's activeNav and slug are texts where the context has them
TextEntries(ctx) ==
    \A key \in {Key.activeNav, Key.slug} : key \in DOMAIN ctx => ctx[key].t = "str"

\* the result the helper is to have for the arguments a = <<path>> or
\* <<path, customClasses>>
ActiveExpected(ctx, a) ==
    LET isSet == Key.activeNav \in DOMAIN ctx /\ ctx[Key.activeNav].v # <<>>
        isGiven == Len(a) = 2 /\ a[2] # <<>>
        nav == IF isSet THEN ctx[Key.activeNav]
               ELSE IF Key.slug \in DOMAIN ctx THEN ctx[Key.slug] ELSE Undef
        current == <<"/">> \o ToStr(nav)
    IN IF WithSlash(current) = WithSlash(a[1])
       THEN (IF isGiven THEN a[2] ELSE Str.active)
       ELSE <<>>

\* C20: the active helper takes the current nav path to be "/" + (activeNav
\* if set, else slug), appends a trailing "/" to the target path and to the
\* current path when missing, and returns customClasses ("active" when none
\* is given) if the two normalized paths are equal and "" otherwise.  An
\* activeNav that is the empty text counts as not set, and custom classes
\* that are the empty text as not given.
C20_ActiveHelper ==
    \A a \in ActiveArgs :
        (pc = "done" /\ template = ActiveTag(a) /\ TextEntries(context))
            => output = ActiveExpected(context, a)

\* the activeNav entry overrides the slug, the slash is appended to both
\* paths, and the custom classes are returned
C20_Witness ==
    /\ pc = "done"
    /\ template = ActiveTag(<<<<"/","a">>, <<"c"," ","d">>>>)
    /\ Field(context, Key.activeNav) = StrV(<<"a","/">>)
    /\ Field(context, Key.slug) = StrV(<<"b">>)
    /\ output = <<"c"," ","d">>

----------------------------------------------------------------------------
(* Unterminated blocks                                                     *)

\* what a well-formed piece renders to in a context with top "T", the names
\* "a" and "b" in items, and its flag
RenderedPiece(w, ctx) ==
    CASE w = Tag(Key.top) -> <<"T">>
      [] w = HelperTag(Name.url, <<"/","d">>) -> <<"/","d">>
      [] w = IfTag(Key.flag) \o <<"Y">> \o Lit.endif ->
            (IF ctx[Key.flag] = BoolV(TRUE) THEN <<"Y">> ELSE <<>>)
      [] w = LoopTemplate(Key.items, Tag(Key.name)) -> <<"a","b">>
      [] OTHER -> w

\* C21: an unterminated {{#if ...}} (no {{/if}} follows) or unterminated
\* {{#each ...}} (no {{/each}} follows) is left in the output as its original
\* text, no error is raised, and the well-formed tags before and after it are
\* rendered.
C21_UnterminatedKept ==
    \A pre \in WellFormed, op \in Openers, post \in WellFormed :
        LET tpl == pre \o op \o <<"X">> \o post
        IN (template = tpl /\ tpl \in UnterminatedTemplates /\ context \in
                {c @@ (Key.config :> MapV(EmptyMap)) : c \in UnterminatedContexts})
             => /\ pc # "threw"
                /\ pc = "done" =>
                     output = RenderedPiece(pre, context) \o op \o <<"X">>
                              \o RenderedPiece(post, context)

\* "{{#if flag}}Y{{/if}}{{#each items}}X{{top}}" has been rendered with the
\* opener kept between the rendered block and the rendered variable
C21_Witness ==
    /\ pc = "done"
    /\ template = IfTag(Key.flag) \o <<"Y">> \o Lit.endif \o EachTag(Key.items)
                  \o <<"X">> \o Tag(Key.top)
    /\ output = <<"Y">> \o EachTag(Key.items) \o <<"X", "T">>

----------------------------------------------------------------------------
(* The passes of the conditional loop                                      *)

\* the number of places where the text has the marker "{{#if"
MarkerCount(text) == Cardinality({i \in 1..Len(text) : StartsAt(text, i, Lit.if)})

\* C22: every pass of the conditional-reprocessing loop either strictly
\* reduces the number of "{{#if" markers in the working text or leaves the
\* text unchanged; no pass changes the text while keeping or increasing the
\* number of markers.
C22_PassReducesMarkers ==
    [][(pc = "conditionals" /\ pc' = "conditionals" /\ output' # output)
          => MarkerCount(output') < MarkerCount(output)]_vars

\* C22 as the code has it: every pass of the conditional-reprocessing loop
\* strictly shortens the working text (each block it replaces gives way to one
\* of its own branches); the number of "{{#if" markers can stay the same or
\* grow, when the text around a replaced block joins into a new marker.
C22_PassShortens ==
    [][(pc = "conditionals" /\ pc' = "conditionals")
          => Len(output') < Len(output)]_vars

\* a pass has taken "{{#{{#if a}}{{/if}}if b}}X{{/if}}" to "{{#if b}}X{{/if}}":
\* one marker before, one marker after
C22_Witness ==
    /\ pc = "conditionals"
    /\ previousOutput = <<"{","{","#">> \o IfTag(Key.a) \o Lit.endif
                        \o <<"i","f"," ","b","}","}","X">> \o Lit.endif
    /\ output = IfTag(Key.b) \o <<"X">> \o Lit.endif
    /\ MarkerCount(output) = MarkerCount(previousOutput)

----------------------------------------------------------------------------
(* Condition evaluation                                                    *)

\* the values that count as false
Falsy(val) == val \in {Undef, Null, BoolV(FALSE), NumV(0), StrV(<<>>), SeqV(<<>>)}

\* C23: a condition p without leading "!" is true exactly when the value at
\* the dotted path p is truthy, where an empty sequence, the empty string, 0,
\* false and undefined/null are falsy and a non-empty sequence and everything
\* else is truthy; each leading "!" negates the rest ("!p" is the negation of
\* p, "!!p" equals p); the block renders its true branch when the condition is
\* true, its {{#else}} branch when it is false, and the empty string when it is
\* false and the block has no {{#else}}.
C23_ConditionEvaluation ==
    \A bangs \in 0..2, path \in {Key.a, Key.a \o <<".">> \o Key.b}, withElse \in BOOLEAN :
        (pc = "done" /\ template = TruthTemplate(bangs, path, withElse))
            => LET atPath == ~Falsy(getNestedValue(context, path))
                   holds == IF bangs = 1 THEN ~atPath ELSE atPath
               IN output = (IF holds THEN <<"X">>
                            ELSE IF withElse THEN <<"Y">> ELSE <<>>)

\* "{{#if !a.b}}X{{/if}}" with the empty sequence at a.b has rendered "X"
C23_Witness ==
    /\ pc = "done"
    /\ template = TruthTemplate(1, Key.a \o <<".">> \o Key.b, FALSE)
    /\ Field(context, Key.a) = MapV(Key.b :> SeqV(<<>>))
    /\ output = <<"X">>

----------------------------------------------------------------------------
(* The path resolver                                                       *)

\* the value reached from val by following keys through the data: the keys of
\* a mapping, the indices and the length of a sequence or a string; undefined
\* as soon as a key is absent or the value is undefined or null
RECURSIVE Follow(_, _)
Follow(val, keys) ==
    IF keys = <<>> THEN val
    ELSE LET key == Head(keys)
             present ==
                 CASE val.t = "map" -> key \in DOMAIN val.v
                   [] val.t \in {"seq", "str"} ->
                         \/ key = Key.length
                         \/ IndexKey(key) >= 0 /\ IndexKey(key) < Len(val.v)
                   [] OTHER -> FALSE
         IN IF present THEN Follow(GetProp(val, key), Tail(keys)) ELSE Undef

\* C24: the path resolver returns the value reached by following the
\* dot-separated keys from the context, and undefined, without raising an
\* error, as soon as a key along the path is absent or an intermediate value
\* is undefined or null; a plain variable tag whose path resolves to undefined
\* or null renders as the empty string (and as the string form of the value
\* otherwise).
C24_PathResolver ==
    \A call \in ResolverCalls :
        (template = call[1] /\ Convertible(MapV(context)))
            => /\ pc # "threw"
               /\ pc = "done" =>
                    LET path == Sub(template, 3, Len(template) - 2)
                        value == Follow(MapV(context), Split(path, "."))
                    IN output = (IF value \in {Undef, Null} THEN <<>> ELSE ToStr(value))

----------------------------------------------------------------------------
(* What a render call leaves alone                                         *)

\* C25: a render call leaves the context it was given and the helper table
\* unchanged (the loop-local contexts are new mappings; the outer context
\* gains or loses no key), so whatever calls came before it on the same
\* engine, a call ends with the output that render gives for its template,
\* its context and the helper table alone.
C25_RenderFrame ==
    [][/\ pc # "idle" => helpers' = helpers
       /\ (pc # "idle" /\ pc' # "idle") => (context' = context /\ template' = template)
       /\ pc' = "done" => output' = render(helpers', template', context')
       /\ pc' = "threw" => render(helpers', template', context') = Uncaught]_vars

\* a loop over two elements has been expanded: the loop-local contexts have
\* the element's keys and the loop metadata, the context of the call has not
C25_Witness ==
    /\ pc = "done"
    /\ Len(loopContexts) = 2
    /\ Key.index \in DOMAIN loopContexts[2]
    /\ Key.index \notin DOMAIN context
    /\ output # <<>>

----------------------------------------------------------------------------
(* Tags with and without a colon                                           *)

\* C26: a tag is dispatched to the helper registry only when it has the form
\* {{name:args}} with at least one character of args.  A tag without a colon
\* such as {{currentLang}}, {{langPrefix}} or {{year}} is resolved as a plain
\* variable: it renders the context's value under that name and the empty
\* string when the context has none ({{currentLang}} does not render the
\* default locale, {{year}} does not render the year).  {{name:}} is neither
\* dispatched nor a variable and stays as it is; {{name:_}} renders what the
\* helper returns.
C26_ColonDispatch ==
    \A name \in ColonNames :
        LET own == Field(context, name)
        IN /\ (pc = "done" /\ template = Tag(name))
                => output = (IF own = Undef THEN <<>> ELSE ToStr(own))
           /\ (pc = "done" /\ template = Tag(name \o <<":">>))
                => output = template
           /\ (pc = "done" /\ template = HelperTag(name, <<"_">>))
                => output = (CASE name = Name.year -> NatToStr(ClockYear)
                               [] name = Name.currentLang ->
                                     (IF own = Undef THEN Str.de ELSE ToStr(own))
                               [] OTHER -> (IF own = Undef THEN <<>> ELSE ToStr(own)))

\* {{currentLang}} with no currentLang in the context has rendered "", and
\* the configured default was not used
C26_Witness ==
    /\ pc = "done"
    /\ template = Tag(Name.currentLang)
    /\ Key.currentLang \notin DOMAIN context
    /\ output = <<>>

----------------------------------------------------------------------------
(* Nested loops                                                            *)

\* the outer body "A{{#each items}}<inner>" once per element, inner being "B"
\* or the element's name
RECURSIVE OuterBodies(_, _)
OuterBodies(items, inner) ==
    IF items = <<>> THEN <<>>
    ELSE <<"A">> \o EachTag(Key.items)
         \o (IF inner = <<"B">> THEN inner
             ELSE IF Key.name \in DOMAIN Head(items).v THEN Head(items).v[Key.name].v
                  ELSE <<>>)
         \o OuterBodies(Tail(items), inner)

\* C27: an {{#each}} opener is paired with the nearest following {{/each}}.
\* For a loop nested fully inside another loop the outer body ends at the
\* inner loop's {{/each}}: the inner {{#each ...}} opener stays unexpanded in
\* each rendered outer body, and what follows the inner {{/each}}, the outer
\* {{/each}} included, is left as literal text after the expansion.
C27_NestedEach ==
    \A inner \in {<<"B">>, Tag(Key.name)} :
        (pc = "done" /\ template = NestedEach(inner))
            => output = (IF Field(context, Key.items).t = "seq"
                         THEN OuterBodies(context[Key.items].v, inner) ELSE <<>>)
                        \o <<"C">> \o Lit.endeach

\* two elements: the outer body twice, each with the inner opener in it, then
\* "C{{/each}}"
C27_Witness ==
    /\ pc = "done"
    /\ template = NestedEach(<<"B">>)
    /\ Field(context, Key.items).t = "seq"
    /\ Len(context[Key.items].v) = 2
    /\ output = <<"A">> \o EachTag(Key.items) \o <<"B", "A">> \o EachTag(Key.items)
                \o <<"B", "C">> \o Lit.endeach

----------------------------------------------------------------------------
(* Output directory and locale prefix                                      *)

\* C28: for every strategy, locale and page slug, a page built for locale L is
\* written under "<L>/" exactly when the langPrefix computed for L is "/<L>",
\* the default locale under strategy prefix included.
C28_OutputDirMatchesPrefix ==
    BuiltByBuilder =>
        LET locale == context[Key.locale].v
        IN StartsAt(context[Key.outputPath].v, 1, locale \o <<"/">>)
           <=> (context[Key.langPrefix].v = <<"/">> \o locale)

----------------------------------------------------------------------------
(* Frame of registerHelper                                                 *)

\* the templates rendered after a registration that use the helper name
TagsOf(name) == Around(HelperTag(name, <<"x">>))

\* C30 as stated: registerHelper(name, fn) changes the result of tags using
\* that name only; a tag of any other helper name, {{t:key}} after translate
\* was replaced included, renders exactly as the engine rendered it before any
\* registration.
C30_RegisterFrame ==
    \A name \in {Name.greet, Name.translate, Name.t, Name.frobnicate} :
        (/\ pc = "done"
         /\ template \in TagsOf(name)
         /\ LastRegistered(registrations, name) = "none")
            => output = render(DefaultHelpers, template, context)

\* C30 amended: {{t:key}} follows the helper registered as translate, since t
\* calls this.helpers.translate when it runs.  A tag renders as before any
\* registration when neither its own name nor, for t, the name translate was
\* registered; after translate was replaced {{t:x}} gives what the replacement
\* returns, and stays as it is when the replacement throws.
C30_RegisterFrameAlias ==
    /\ \A name \in {Name.greet, Name.translate, Name.t, Name.frobnicate} :
          (/\ pc = "done"
           /\ template \in TagsOf(name)
           /\ LastRegistered(registrations, name) = "none"
           /\ name = Name.t => LastRegistered(registrations, Name.translate) = "none")
              => output = render(DefaultHelpers, template, context)
    /\ (pc = "done" /\ template = HelperTag(Name.t, <<"x">>))
          => LET last == LastRegistered(registrations, Name.translate)
             IN /\ last = "returnsK" => output = <<"K">>
                /\ last = "throws" => output = template

\* after greet and then translate were registered: {{frobnicate:x}} is still
\* kept as an unknown helper's tag
C30_Witness ==
    /\ pc = "done"
    /\ template = HelperTag(Name.frobnicate, <<"x">>)
    /\ Len(registrations) = 2
    /\ LastRegistered(registrations, Name.translate) = "returnsK"
    /\ LastRegistered(registrations, Name.greet) # "none"
    /\ output = template

----------------------------------------------------------------------------
(* Dev server: builds and reloads                                          *)

\* the builds that have started and neither returned nor failed
Running(bs) == {b \in DOMAIN bs : bs[b].at \in {"loadConfig", "emptyDir", "pages"}}

\* C29: in the dev server, for any sequence and timing of file events, at most
\* one build runs at a time on the shared Builder, and whenever connected
\* clients are sent "reload" no build is in progress and the dist directory
\* holds the complete output of a finished build.
C29_DevBuildsExclusive ==
    /\ [](Cardinality(Running(builds)) <= 1)
    /\ [][inbox' # inbox => (Running(builds') = {} /\ dist' = OutputFiles)]_vars

====
